---- MODULE Spec2Model ----
(***************************************************************************)
(* Verification model of baygon: the schema normaliser (schema.py) and the *)
(* inheritance propagator (merge.py).                                      *)
(*                                                                         *)
(* Python values are modelled as attributed trees.  Every value is a       *)
(* record [oid, cls, key, s, i, kids]:                                     *)
(*   oid  - identity of a mutable object (0 for immutable atoms and for    *)
(*          the raw mapping, whose identity plays no role);                *)
(*   cls  - Python class ("none", "str", "int", "float", "list", "dict",   *)
(*          or a pydantic model class);                                    *)
(*   key  - the dict key / attribute name under which the parent holds it; *)
(*   s, i - string / integer payload (for a model: s is its `kind`);       *)
(*   kids - items of a list, entries of a dict (insertion order), fields   *)
(*          of a model.                                                    *)
(* Two occurrences with the same oid > 0 are the same object (aliasing).   *)
(***************************************************************************)
EXTENDS Integers, Naturals, Sequences, FiniteSets, TLC

VARIABLES
    pc,        \* "raw" | "normalized" | "invalid" | "merged" | "merge_error"
               \* | "built" | "build_error"
               \* | "stream" | "compiled" | "compile_error"
               \* | "new" | "ready" | "invalid" | "communicate" | "timeout"
               \* | "killed" | "waited" | "decode" | "returned" | "raised"
    raw,       \* the raw mapping given to normalize_spec, as it is now
    spec,      \* the Spec returned by normalize_spec (None before / on failure)
    merged,    \* the Spec returned by merge_spec (None before / on failure)
    nextOid,   \* next unused object identity
    disk,      \* the file system seen by Executable(...)
    suite,     \* the nodes of the TestSuite returned by build_suite
    outcome,   \* the last call on the suite: what it returned or raised, what it did
    runs,      \* number of calls of run so far
    stream,    \* a stream to evaluate: leaf filters, declared ops, captured text
    compiled,  \* its runtime filters and pipeline steps (<<>> before)
    evaluation,\* <<the StreamEvaluation returned by evaluate>> (<<>> before)
    collected, \* <<the list returned by Matchers.evaluate>> (<<>> before)
    exe,       \* an Executable: the name it was asked for, its filename
    proc,      \* the processes of one call of Executable.run
    result,    \* what that call gave: <<Outputs>>, or the error it raised
    tids,      \* the TestId objects made so far and the last call on them
    track,     \* a TrackId cursor and the payloads it numbered
    context    \* an expression Context: its namespace and the last call on it

suiteVars == <<disk, suite, outcome, runs>>
streamVars == <<stream, compiled, evaluation, collected>>
execVars == <<exe, proc, result>>
auxVars == <<tids, track, context>>
vars == <<pc, raw, spec, merged, nextOid, suiteVars, streamVars, execVars, auxVars>>

----------------------------------------------------------------------------
(* Python object layer *)

Obj(oid, cls, key, s, i, kids) ==
    [oid |-> oid, cls |-> cls, key |-> key, s |-> s, i |-> i, kids |-> kids]

PyNone == Obj(0, "none", "", "", 0, <<>>)
PyStr(s) == Obj(0, "str", "", s, 0, <<>>)
PyInt(i) == Obj(0, "int", "", "", i, <<>>)
PyFloat(i) == Obj(0, "float", "", "", i, <<>>)
PyList(elems) == Obj(0, "list", "", "", 0, elems)
PyDict(entries) == Obj(0, "dict", "", "", 0, entries)
PyModel(cls, kind, fields) == Obj(0, cls, "", kind, 0, fields)

\* the value o stored under key / attribute k
K(k, o) == [o EXCEPT !.key = k]

Atoms == {"none", "str", "int", "float"}

\* `k in d`, d[k], d.get(k)
Has(o, k) == \E n \in DOMAIN o.kids : o.kids[n].key = k
Get(o, k) == o.kids[CHOOSE n \in DOMAIN o.kids : o.kids[n].key = k]
DictGet(o, k) == IF Has(o, k) THEN Get(o, k) ELSE K(k, PyNone)

\* d[k] = v on a dict, obj.k = v on a model: replaces in place, else appends
Put(o, k, v) ==
    IF Has(o, k)
    THEN [o EXCEPT !.kids = [n \in DOMAIN o.kids |->
                               IF o.kids[n].key = k THEN K(k, v) ELSE o.kids[n]]]
    ELSE [o EXCEPT !.kids = Append(o.kids, K(k, v))]

\* Python truthiness (`x or []`, `if copy.tests:`)
Truthy(o) ==
    CASE o.cls = "none" -> FALSE
      [] o.cls = "str" -> o.s # ""
      [] o.cls \in {"int", "float"} -> o.i # 0
      [] o.cls \in {"list", "dict"} -> o.kids # <<>>
      [] OTHER -> TRUE

\* the value without identities and without the key it is stored under
RECURSIVE Val(_)
Val(o) == [oid |-> 0, cls |-> o.cls, key |-> "", s |-> o.s, i |-> o.i,
           kids |-> [n \in DOMAIN o.kids |-> K(o.kids[n].key, Val(o.kids[n]))]]

Vals(seq) == [n \in DOMAIN seq |-> Val(seq[n])]

\* identities of the mutable objects reachable from o
RECURSIVE Oids(_)
Oids(o) == (IF o.oid > 0 THEN {o.oid} ELSE {})
           \cup UNION {Oids(o.kids[n]) : n \in DOMAIN o.kids}

\* str(int)
Digit == <<"0", "1", "2", "3", "4", "5", "6", "7", "8", "9">>
RECURSIVE NatStr(_)
NatStr(n) == IF n < 10 THEN Digit[n + 1] ELSE NatStr(n \div 10) \o Digit[(n % 10) + 1]
IntStr(i) == IF i < 0 THEN "-" \o NatStr(0 - i) ELSE NatStr(i)

\* str(x) for the scalars of a raw mapping
str(o) ==
    CASE o.cls = "str" -> o.s
      [] o.cls = "int" -> IntStr(o.i)
      [] o.cls = "float" -> IntStr(o.i) \o ".0"
      [] o.cls = "none" -> "None"
      [] OTHER -> "<repr>"

\* outcome of a validation step: ok, the value built, and the raw object as
\* the step leaves it
R(ok, val, rw) == [ok |-> ok, val |-> val, raw |-> rw]
Fail(rw) == R(FALSE, PyNone, rw)

\* `r = e`, then the code F that reads r
Let(e, F(_)) == F(e)

----------------------------------------------------------------------------
(* schema.py: filters *)

FilterKeys == {"trim", "lower", "upper", "sub", "map_eval"}

\* FSub._coerce on the object form { regex, repl, flags } and field defaults
FSub_validate(v) ==
    IF v.cls = "dict" /\ Has(v, "regex") /\ Get(v, "regex").cls = "str"
    THEN R(TRUE,
           PyModel("FSub", "sub",
                   << K("regex", Get(v, "regex")),
                      K("repl", IF Has(v, "repl") THEN Get(v, "repl") ELSE PyStr("")),
                      K("flags", DictGet(v, "flags")) >>),
           v)
    ELSE Fail(v)

parse_filter(obj) ==
    IF ~(obj.cls = "dict" /\ Len(obj.kids) = 1) THEN Fail(obj)
    ELSE LET key == obj.kids[1].key
             val == obj.kids[1]
         IN CASE key = "trim" -> R(TRUE, PyModel("FTrim", "trim", <<>>), obj)
              [] key = "lower" -> R(TRUE, PyModel("FLower", "lower", <<>>), obj)
              [] key = "upper" -> R(TRUE, PyModel("FUpper", "upper", <<>>), obj)
              [] key = "sub" -> R(FSub_validate(val).ok, FSub_validate(val).val, obj)
              [] key = "map_eval" /\ val.cls = "str" ->
                    R(TRUE, PyModel("FMapEval", "map_eval", <<K("expr", val)>>), obj)
              [] OTHER -> Fail(obj)

----------------------------------------------------------------------------
(* schema.py: checks *)

CStringKeys == {"contains", "not_contains", "equals", "not_equals"}
CNumberKeys == {"lt", "lte", "gt", "gte"}

CheckClass(key) ==
    CASE key = "contains" -> "CContains"
      [] key = "not_contains" -> "CNotContains"
      [] key = "equals" -> "CEquals"
      [] key = "not_equals" -> "CNotEquals"
      [] key = "lt" -> "CLt"
      [] key = "lte" -> "CLte"
      [] key = "gt" -> "CGt"
      [] key = "gte" -> "CGte"
      [] OTHER -> "?"

\* the `explaination` / `explanation` rewriting shared by the check classes:
\* v = {**v, "explain": v[alias]} builds a NEW dict
ExplainAlias1(v) == Has(v, "explaination") /\ ~Has(v, "explain")
AfterAlias1(v) == IF ExplainAlias1(v) THEN Put(v, "explain", Get(v, "explaination")) ELSE v
ExplainAlias2(v) == Has(AfterAlias1(v), "explanation") /\ ~Has(AfterAlias1(v), "explain")
AfterAlias2(v) ==
    IF ExplainAlias2(v)
    THEN Put(AfterAlias1(v), "explain", Get(AfterAlias1(v), "explanation"))
    ELSE AfterAlias1(v)

\* CString._coerce_base: .val is what the validator returns, .raw is the
\* payload object it was given, as the call leaves it.  `v["value"] = str(..)`
\* writes into v itself, which is still the caller's dict unless an alias
\* rewriting rebound v to a new dict.
CString_coerce_base(v) ==
    IF v.cls = "dict"
    THEN LET w == AfterAlias2(v)
             rebound == ExplainAlias1(v) \/ ExplainAlias2(v)
         IN IF Has(w, "value")
            THEN LET w2 == Put(w, "value", PyStr(str(Get(w, "value"))))
                 IN R(TRUE, w2, IF rebound THEN v ELSE Put(v, "value", PyStr(str(Get(v, "value")))))
            ELSE R(TRUE, PyDict(<<K("value", PyStr(str(v)))>>), v)
    ELSE R(TRUE, PyDict(<<K("value", PyStr(str(v)))>>), v)

\* CNumber._coerce_num: always builds new dicts ({**v, ...}); float() of a
\* number (the raw mappings drawn here hold no numeric strings)
CNumber_coerce_num(v) ==
    IF v.cls = "dict"
    THEN LET w == AfterAlias2(v)
         IN IF Has(w, "value")
            THEN IF Get(w, "value").cls \in {"int", "float"}
                 THEN R(TRUE, Put(w, "value", PyFloat(Get(w, "value").i)), v)
                 ELSE Fail(v)
            ELSE Fail(v)
    ELSE IF v.cls \in {"int", "float"}
         THEN R(TRUE, PyDict(<<K("value", PyFloat(v.i))>>), v)
         ELSE Fail(v)

\* pydantic field validation of CheckBase + value: explain is Optional[str],
\* unknown keys are ignored
Check_fields(cls, kind, c) ==
    IF ~c.ok THEN c
    ELSE LET e == DictGet(c.val, "explain")
         IN IF e.cls \in {"none", "str"}
            THEN R(TRUE,
                   PyModel(cls, kind, << K("explain", e), K("value", Get(c.val, "value")) >>),
                   c.raw)
            ELSE Fail(c.raw)

\* _parse_perl_like on the patterns the raw checks hold: "m/a/i" has the
\* form m/<regex>/<flags>, the others have neither that form nor s/../../
_parse_perl_like(pattern) ==
    IF pattern = "m/a/i" THEN [kind |-> "m", rx |-> PyStr("a"), flags |-> PyStr("i")]
    ELSE [kind |-> "", rx |-> PyStr(pattern), flags |-> PyNone]

\* CMatch._coerce: only the text form is rewritten, a dict is returned as is
CMatch_coerce(v) ==
    IF v.cls = "str"
    THEN R(TRUE, PyDict(<<K("regex", _parse_perl_like(v.s).rx),
                          K("flags", _parse_perl_like(v.s).flags)>>), v)
    ELSE R(TRUE, v, v)

\* CCheckEval._coerce
CCheckEval_coerce(v) ==
    IF v.cls = "str" THEN R(TRUE, PyDict(<<K("expr", v)>>), v)
    ELSE IF v.cls = "dict" THEN R(TRUE, AfterAlias2(v), v)
    ELSE R(TRUE, v, v)

\* d.pop(k) on a copy of the dict
Pop(o, k) == [o EXCEPT !.kids = SelectSeq(o.kids, LAMBDA kid : kid.key # k)]

\* CCapture._coerce: works on out = dict(v); the alias is popped
CCapture_coerce(v) ==
    IF v.cls # "dict" THEN R(TRUE, v, v)
    ELSE
    Let(IF Has(v, "explaination") /\ ~Has(v, "explain")
        THEN Put(Pop(v, "explaination"), "explain", Get(v, "explaination")) ELSE v,
        LAMBDA o1 :
    Let(IF Has(o1, "explanation") /\ ~Has(o1, "explain")
        THEN Put(Pop(o1, "explanation"), "explain", Get(o1, "explanation")) ELSE o1,
        LAMBDA o2 :
        IF Has(o2, "regex") /\ Get(o2, "regex").cls = "str"
              /\ _parse_perl_like(Get(o2, "regex").s).kind = "m"
        THEN R(TRUE, Put(Put(o2, "regex", _parse_perl_like(Get(o2, "regex").s).rx),
                         "flags", _parse_perl_like(Get(o2, "regex").s).flags), v)
        ELSE R(TRUE, o2, v)))

\* pydantic field validation of CMatch: regex is a str, flags and explain
\* are Optional[str], unknown keys are ignored
CMatch_fields(c) ==
    IF c.val.cls = "dict" /\ Has(c.val, "regex") /\ Get(c.val, "regex").cls = "str"
          /\ DictGet(c.val, "flags").cls \in {"none", "str"}
          /\ DictGet(c.val, "explain").cls \in {"none", "str"}
    THEN R(TRUE, PyModel("CMatch", "match",
                         << K("explain", DictGet(c.val, "explain")),
                            K("regex", Get(c.val, "regex")),
                            K("flags", DictGet(c.val, "flags")) >>), c.raw)
    ELSE Fail(c.raw)

\* pydantic field validation of CCheckEval
CCheckEval_fields(c) ==
    IF c.val.cls = "dict" /\ Has(c.val, "expr") /\ Get(c.val, "expr").cls = "str"
          /\ DictGet(c.val, "explain").cls \in {"none", "str"}
    THEN R(TRUE, PyModel("CCheckEval", "check_eval",
                         << K("explain", DictGet(c.val, "explain")),
                            K("expr", Get(c.val, "expr")) >>), c.raw)
    ELSE Fail(c.raw)

\* pydantic field validation of CCapture, before _coerce_tests; group
\* defaults to 1 and tests to []
CCapture_fields(c) ==
    IF c.val.cls = "dict" /\ Has(c.val, "regex") /\ Get(c.val, "regex").cls = "str"
          /\ DictGet(c.val, "flags").cls \in {"none", "str"}
          /\ DictGet(c.val, "explain").cls \in {"none", "str"}
          /\ (Has(c.val, "group") => Get(c.val, "group").cls = "int")
          /\ (Has(c.val, "tests") => Get(c.val, "tests").cls = "list")
    THEN R(TRUE, PyModel("CCapture", "capture",
                         << K("explain", DictGet(c.val, "explain")),
                            K("regex", Get(c.val, "regex")),
                            K("flags", DictGet(c.val, "flags")),
                            K("group", IF Has(c.val, "group") THEN Get(c.val, "group")
                                       ELSE PyInt(1)),
                            K("tests", IF Has(c.val, "tests") THEN Get(c.val, "tests")
                                       ELSE PyList(<<>>)) >>), c.raw)
    ELSE Fail(c.raw)

RECURSIVE parse_check(_)

\* CCapture._coerce_tests: every item of tests goes through parse_check
CCapture_coerce_tests(c) ==
    IF ~c.ok THEN c
    ELSE Let([n \in DOMAIN Get(c.val, "tests").kids |->
                 parse_check(Get(c.val, "tests").kids[n])], LAMBDA norm :
         IF \E n \in DOMAIN norm : ~norm[n].ok THEN Fail(c.raw)
         ELSE R(TRUE, Put(c.val, "tests", PyList([n \in DOMAIN norm |-> norm[n].val])),
                c.raw))

parse_check(obj) ==
    IF ~(obj.cls = "dict" /\ Len(obj.kids) = 1) THEN Fail(obj)
    ELSE LET key == obj.kids[1].key
             val == obj.kids[1]
         IN Let(CASE key \in CStringKeys ->
                        Check_fields(CheckClass(key), key, CString_coerce_base(val))
                  [] key \in CNumberKeys ->
                        Check_fields(CheckClass(key), key, CNumber_coerce_num(val))
                  [] key = "match" -> CMatch_fields(CMatch_coerce(val))
                  [] key = "check_eval" -> CCheckEval_fields(CCheckEval_coerce(val))
                  [] key = "capture" ->
                        CCapture_coerce_tests(CCapture_fields(CCapture_coerce(val)))
                  [] OTHER -> Fail(val),
                LAMBDA r : R(r.ok, r.val, [obj EXCEPT !.kids = <<K(key, r.raw)>>]))

\* parse_stream_ops: the loop stops at the first item that raises
RECURSIVE _stream_ops_loop(_, _)
_stream_ops_loop(elems, n) ==
    IF n > Len(elems) THEN [ok |-> TRUE, val |-> <<>>, raw |-> <<>>]
    ELSE LET item == elems[n]
         IN Let(IF ~(item.cls = "dict" /\ Len(item.kids) = 1) THEN Fail(item)
                ELSE IF item.kids[1].key \in FilterKeys THEN parse_filter(item)
                ELSE parse_check(item),
                LAMBDA r :
                  IF ~r.ok
                  THEN [ok |-> FALSE, val |-> <<>>,
                        raw |-> <<r.raw>> \o SubSeq(elems, n + 1, Len(elems))]
                  ELSE LET rest == _stream_ops_loop(elems, n + 1)
                       IN [ok |-> rest.ok, val |-> <<r.val>> \o rest.val,
                           raw |-> <<r.raw>> \o rest.raw])

\* .val is the Python list of normalised ops
parse_stream_ops(seq) ==
    IF seq.cls = "none" THEN R(TRUE, PyList(<<>>), seq)
    ELSE IF seq.cls # "list" THEN Fail(seq)
    ELSE Let(_stream_ops_loop(seq.kids, 1),
             LAMBDA l : R(l.ok, PyList(l.val), [seq EXCEPT !.kids = l.raw]))

----------------------------------------------------------------------------
(* schema.py: SetupStep, FileSpec, TestCase, ExecConfig, Spec *)

\* SetupStep._coerce + fields
SetupStep_validate(v) ==
    IF v.cls = "dict" /\ Len(v.kids) = 1 /\ v.kids[1].key \in {"run", "eval"}
    THEN R(TRUE, PyModel("SetupStep", v.kids[1].key, <<K("value", PyStr(str(v.kids[1])))>>), v)
    ELSE Fail(v)

\* `v.get(k) or []`
GetOrEmpty(v, k) == IF Truthy(DictGet(v, k)) THEN Get(v, k) ELSE PyList(<<>>)

\* [f(x) for x in (v.get(k) or [])] for the item validators that leave the
\* raw items alone
SetupList(v, k) ==
    Let([n \in DOMAIN GetOrEmpty(v, k).kids |-> SetupStep_validate(GetOrEmpty(v, k).kids[n])],
        LAMBDA rs : R(\A n \in DOMAIN rs : rs[n].ok,
                      PyList([n \in DOMAIN rs |-> rs[n].val]),
                      DictGet(v, k)))

FilterList(v, k) ==
    Let([n \in DOMAIN GetOrEmpty(v, k).kids |-> parse_filter(GetOrEmpty(v, k).kids[n])],
        LAMBDA rs : R(\A n \in DOMAIN rs : rs[n].ok,
                      PyList([n \in DOMAIN rs |-> rs[n].val]),
                      DictGet(v, k)))

\* parse_stream_ops(v.get(k) or []): the raw value is touched only when it
\* is the list that is walked
StreamOps(v, k) ==
    IF Truthy(DictGet(v, k))
    THEN parse_stream_ops(Get(v, k))
    ELSE R(TRUE, PyList(<<>>), DictGet(v, k))

\* FileSpec._coerce followed by the fields (ops: List[Any], a new list)
FileSpec_validate(v) ==
    IF v.cls = "list"
    THEN Let(parse_stream_ops(v),
             LAMBDA r : R(r.ok, PyModel("FileSpec", "", <<K("ops", r.val)>>), r.raw))
    ELSE IF v.cls = "dict" /\ Has(v, "ops") /\ Get(v, "ops").cls = "list"
    THEN Let(parse_stream_ops(Get(v, "ops")),
             LAMBDA r : R(r.ok, PyModel("FileSpec", "", <<K("ops", r.val)>>),
                          Put(v, "ops", r.raw)))
    ELSE IF v.cls = "dict" /\ (Has(v, "filters") \/ Has(v, "checks"))
    THEN Let(StreamOps(v, "filters"), LAMBDA f :
         Let(IF f.ok THEN StreamOps(v, "checks") ELSE Fail(DictGet(v, "checks")), LAMBDA c :
             LET v1 == IF Has(v, "filters") THEN Put(v, "filters", f.raw) ELSE v
                 v2 == IF Has(v, "checks") THEN Put(v1, "checks", c.raw) ELSE v1
             IN R(f.ok /\ c.ok,
                  PyModel("FileSpec", "", <<K("ops", PyList(f.val.kids \o c.val.kids))>>),
                  v2)))
    ELSE Fail(v)

\* the loop of TestCase._pre over v["files"].items(): stops at the first
\* FileSpec that raises
RECURSIVE _files_loop(_, _)
_files_loop(entries, n) ==
    IF n > Len(entries) THEN [ok |-> TRUE, val |-> <<>>, raw |-> <<>>]
    ELSE Let(FileSpec_validate(entries[n]), LAMBDA r :
             IF ~r.ok
             THEN [ok |-> FALSE, val |-> <<>>,
                   raw |-> <<K(entries[n].key, r.raw)>> \o SubSeq(entries, n + 1, Len(entries))]
             ELSE LET rest == _files_loop(entries, n + 1)
                  IN [ok |-> rest.ok,
                      val |-> <<K(entries[n].key, r.val)>> \o rest.val,
                      raw |-> <<K(entries[n].key, r.raw)>> \o rest.raw])

Files(v) ==
    IF Has(v, "files") /\ Get(v, "files").cls = "dict"
    THEN Let(_files_loop(Get(v, "files").kids, 1),
             LAMBDA l : R(l.ok, PyDict(l.val), [Get(v, "files") EXCEPT !.kids = l.raw]))
    ELSE R(~Has(v, "files"), PyDict(<<>>), DictGet(v, "files"))

\* _as_str_list
_as_str_list(v) ==
    IF v.cls = "none" THEN PyList(<<>>)
    ELSE IF v.cls = "list" THEN PyList([n \in DOMAIN v.kids |-> PyStr(str(v.kids[n]))])
    ELSE PyList(<<PyStr(str(v))>>)

\* Optional[Union[str, List[str]]]
StdinField(v) ==
    LET x == DictGet(v, "stdin")
    IN IF x.cls \in {"none", "str"} THEN R(TRUE, x, x)
       ELSE IF x.cls = "list" /\ \A n \in DOMAIN x.kids : x.kids[n].cls = "str"
       THEN R(TRUE, PyList(x.kids), x)
       ELSE Fail(x)

\* Optional[int] (default None) and int (with default d)
OptIntField(v, k) ==
    LET x == DictGet(v, k)
    IN IF x.cls \in {"none", "int"} THEN R(TRUE, x, x) ELSE Fail(x)

IntField(v, k, d) ==
    IF ~Has(v, k) THEN R(TRUE, PyInt(d), PyNone)
    ELSE IF Get(v, k).cls = "int" THEN R(TRUE, Get(v, k), Get(v, k))
    ELSE Fail(Get(v, k))

\* TestCase._pre, the before-validator: one step per key, in the order of
\* the code; the first step that raises ends it (.ok = FALSE) and the later
\* keys are not visited
TestCase_pre(v) ==
    Let(IF Has(v, "stdout") THEN StreamOps(v, "stdout") ELSE R(TRUE, PyList(<<>>), PyNone),
        LAMBDA so :
    Let(IF ~so.ok THEN Fail(DictGet(v, "stderr"))
        ELSE IF Has(v, "stderr") THEN StreamOps(v, "stderr")
        ELSE R(TRUE, PyList(<<>>), PyNone),
        LAMBDA se :
    Let(IF ~se.ok THEN Fail(PyNone)
        ELSE IF Has(v, "filters") THEN FilterList(v, "filters")
        ELSE R(TRUE, PyList(<<>>), PyNone),
        LAMBDA fi :
    Let(IF ~fi.ok THEN Fail(DictGet(v, "files")) ELSE Files(v),
        LAMBDA fl :
    Let(IF ~fl.ok THEN Fail(PyNone)
        ELSE IF Has(v, "setup") THEN SetupList(v, "setup")
        ELSE R(TRUE, PyList(<<>>), PyNone),
        LAMBDA su :
    Let(IF ~su.ok THEN Fail(PyNone)
        ELSE IF Has(v, "teardown") THEN SetupList(v, "teardown")
        ELSE R(TRUE, PyList(<<>>), PyNone),
        LAMBDA td :
          [ok |-> td.ok,
           args |-> IF Has(v, "args") THEN _as_str_list(Get(v, "args")) ELSE PyList(<<>>),
           stdout |-> so, stderr |-> se, filters |-> fi, files |-> fl,
           setup |-> su, teardown |-> td]))))))

\* the items of v["tests"] when it is a list
RawTests(v) == IF Has(v, "tests") /\ Get(v, "tests").cls = "list" THEN Get(v, "tests").kids ELSE <<>>

\* the raw test v once _pre (outcome p) has walked it
TestCase_raw(v, p) ==
    LET v1 == IF Has(v, "stdout") THEN Put(v, "stdout", p.stdout.raw) ELSE v
        v2 == IF Has(v, "stderr") THEN Put(v1, "stderr", p.stderr.raw) ELSE v1
    IN IF Has(v, "files") THEN Put(v2, "files", p.files.raw) ELSE v2

\* TestCase: _pre, then the declared fields, validated only when _pre
\* returned; every child is visited; keys that are no field of the model
\* (pydantic's default extra = "ignore") are dropped
RECURSIVE TestCase_validate(_)
TestCase_validate(v) ==
    IF v.cls # "dict" THEN Fail(v)
    ELSE
    Let(TestCase_pre(v), LAMBDA p :
    Let(TestCase_raw(v, p), LAMBDA v3 :
    Let([n \in DOMAIN RawTests(v) |-> TestCase_validate(RawTests(v)[n])], LAMBDA kidsR :
    LET tests_ok == DictGet(v, "tests").cls \in {"none", "list"}
                    /\ \A n \in DOMAIN kidsR : kidsR[n].ok
        tests == IF DictGet(v, "tests").cls = "list"
                 THEN PyList([n \in DOMAIN kidsR |-> kidsR[n].val])
                 ELSE PyNone
        v4 == IF p.ok /\ Has(v, "tests") /\ Get(v, "tests").cls = "list"
              THEN Put(v3, "tests",
                       [Get(v, "tests") EXCEPT !.kids = [n \in DOMAIN kidsR |-> kidsR[n].raw]])
              ELSE v3
        name_ok == Has(v, "name") /\ Get(v, "name").cls = "str"
        desc_ok == DictGet(v, "description").cls \in {"none", "str"}
        fields_ok == name_ok /\ desc_ok /\ tests_ok /\ StdinField(v).ok
                     /\ OptIntField(v, "exit").ok /\ IntField(v, "repeat", 1).ok
    IN IF p.ok /\ fields_ok
       THEN R(TRUE,
              PyModel("TestCase", "",
                      << K("name", Get(v, "name")),
                         K("description", DictGet(v, "description")),
                         K("tests", tests),
                         K("filters", p.filters.val),
                         K("setup", p.setup.val),
                         K("teardown", p.teardown.val),
                         K("stdin", StdinField(v).val),
                         K("args", p.args),
                         K("exit", OptIntField(v, "exit").val),
                         K("repeat", IntField(v, "repeat", 1).val),
                         K("stdout", p.stdout.val),
                         K("stderr", p.stderr.val),
                         K("files", p.files.val) >>),
              v4)
       ELSE Fail(v4))))

\* ExecConfig._coerce + fields (env, cwd and shell keep their defaults here)
ExecConfig_validate(v) ==
    IF v.cls # "dict" THEN Fail(v)
    ELSE LET args == IF Has(v, "args") THEN _as_str_list(Get(v, "args")) ELSE PyList(<<>>)
             si == DictGet(v, "stdin")
             stdin == IF si.cls = "list" THEN PyList([n \in DOMAIN si.kids |-> PyStr(str(si.kids[n]))])
                      ELSE IF si.cls \in {"none", "str"} THEN si
                      ELSE PyStr(str(si))
             cmd_ok == Has(v, "cmd") /\ Get(v, "cmd").cls \in {"str", "list"}
             to == DictGet(v, "timeout")
             to_ok == to.cls \in {"none", "int", "float"}
         IN IF cmd_ok /\ to_ok
            THEN R(TRUE,
                   PyModel("ExecConfig", "",
                           << K("cmd", IF Get(v, "cmd").cls = "list"
                                       THEN PyList(Get(v, "cmd").kids) ELSE Get(v, "cmd")),
                              K("timeout", IF to.cls = "none" THEN to ELSE PyFloat(to.i)),
                              K("stdin", stdin),
                              K("args", args) >>),
                   v)
            ELSE Fail(v)

\* Spec: _pre (root filters) then the fields version, exec, filters, tests
Spec_validate(v) ==
    IF v.cls # "dict" THEN Fail(v)
    ELSE
    Let(IF Has(v, "filters") THEN FilterList(v, "filters") ELSE R(TRUE, PyList(<<>>), PyNone),
        LAMBDA fi :
    Let(IF Has(v, "exec") THEN ExecConfig_validate(Get(v, "exec")) ELSE Fail(PyNone),
        LAMBDA ex :
    Let([n \in DOMAIN RawTests(v) |-> TestCase_validate(RawTests(v)[n])], LAMBDA kidsR :
    LET tests_ok == Has(v, "tests") /\ Get(v, "tests").cls = "list"
                    /\ \A n \in DOMAIN kidsR : kidsR[n].ok
        v1 == IF fi.ok /\ Has(v, "tests") /\ Get(v, "tests").cls = "list"
              THEN Put(v, "tests",
                       [Get(v, "tests") EXCEPT !.kids = [n \in DOMAIN kidsR |-> kidsR[n].raw]])
              ELSE v
    IN IF fi.ok /\ ex.ok /\ tests_ok /\ IntField(v, "version", 1).ok
       THEN R(TRUE,
              PyModel("Spec", "",
                      << K("version", IntField(v, "version", 1).val),
                         K("exec", ex.val),
                         K("filters", fi.val),
                         K("tests", PyList([n \in DOMAIN kidsR |-> kidsR[n].val])) >>),
              v1)
       ELSE Fail(v1))))

\* Object creation: every mutable object built by a validation is a new one.
\* Number gives the objects of a freshly built value the identities
\* next, next + 1, ... in preorder; .next is the first identity left unused.
RECURSIVE Number(_, _)
RECURSIVE NumberKids(_, _, _)
Number(o, next) ==
    IF o.cls \in Atoms THEN [obj |-> o, next |-> next]
    ELSE LET ks == NumberKids(o.kids, 1, next + 1)
         IN [obj |-> [o EXCEPT !.oid = next, !.kids = ks.kids], next |-> ks.next]
NumberKids(kids, n, next) ==
    IF n > Len(kids) THEN [kids |-> <<>>, next |-> next]
    ELSE LET h == Number(kids[n], next)
             t == NumberKids(kids, n + 1, h.next)
         IN [kids |-> <<h.obj>> \o t.kids, next |-> t.next]

\* normalize_spec(data) = Spec.model_validate(data)
normalize_spec(data) == Spec_validate(data)

----------------------------------------------------------------------------
(* merge.py *)

\* item.model_copy(deep=True): a deep copy gives every mutable object
\* reachable from o a new identity (sharing inside o is kept, as by
\* deepcopy's memo)
RECURSIVE Rename(_, _)
Rename(o, m) ==
    [o EXCEPT !.oid = IF o.oid > 0 THEN m[o.oid] ELSE 0,
              !.kids = [n \in DOMAIN o.kids |-> Rename(o.kids[n], m)]]

model_copy_deep(o, next) ==
    LET ids == Oids(o)
        m == [id \in ids |-> next + Cardinality({j \in ids : j < id})]
    IN [obj |-> Rename(o, m), next |-> next + Cardinality(ids)]

\* a new Python list holding the given references
NewList(elems, next) ==
    [obj |-> Obj(next, "list", "", "", 0, elems), next |-> next + 1]

\* _clone_models: a new list of deep copies, one copy per item
RECURSIVE _clone_loop(_, _, _)
_clone_loop(seq, n, next) ==
    IF n > Len(seq) THEN [kids |-> <<>>, next |-> next]
    ELSE LET h == model_copy_deep(seq[n], next)
             t == _clone_loop(seq, n + 1, h.next)
         IN [kids |-> <<K("", h.obj)>> \o t.kids, next |-> t.next]

_clone_models(seq, next) ==
    Let(_clone_loop(seq, 1, next), LAMBDA l : NewList(l.kids, l.next))

\* FileSpec(ops=...): the constructor runs FileSpec._coerce on {"ops": ops},
\* which hands the list to parse_stream_ops again
FileSpec_init(ops, next) ==
    Let(FileSpec_validate(PyDict(<<K("ops", ops)>>)), LAMBDA r :
    Let(Number(r.val, next), LAMBDA n :
        [ok |-> r.ok, obj |-> n.obj, next |-> n.next]))

\* ctx.files: name -> tuple of ops, in insertion order
FileNames(entries) == {entries[n].name : n \in DOMAIN entries}
FileOps(entries, name) ==
    entries[CHOOSE n \in DOMAIN entries : entries[n].name = name].ops

\* first loop of _merge_file_specs: the inherited names, in order
RECURSIVE _merge_parent_files(_, _, _, _)
_merge_parent_files(parent, local, n, next) ==
    IF n > Len(parent) THEN [ok |-> TRUE, kids |-> <<>>, next |-> next]
    ELSE LET name == parent[n].name
             ops == IF Has(local, name)
                    THEN parent[n].ops \o Get(Get(local, name), "ops").kids
                    ELSE parent[n].ops
         IN Let(_clone_models(ops, next), LAMBDA c :
            Let(FileSpec_init(c.obj, c.next), LAMBDA f :
                IF ~f.ok THEN [ok |-> FALSE, kids |-> <<>>, next |-> f.next]
                ELSE LET t == _merge_parent_files(parent, local, n + 1, f.next)
                     IN [ok |-> t.ok, kids |-> <<K(name, f.obj)>> \o t.kids,
                         next |-> t.next]))

\* second loop: the names only the node declares
RECURSIVE _merge_local_files(_, _, _, _)
_merge_local_files(parent, local, n, next) ==
    IF n > Len(local.kids) THEN [ok |-> TRUE, kids |-> <<>>, next |-> next]
    ELSE LET name == local.kids[n].key
         IN IF name \in FileNames(parent)
            THEN _merge_local_files(parent, local, n + 1, next)
            ELSE Let(_clone_models(Get(local.kids[n], "ops").kids, next), LAMBDA c :
                 Let(FileSpec_init(c.obj, c.next), LAMBDA f :
                     IF ~f.ok THEN [ok |-> FALSE, kids |-> <<>>, next |-> f.next]
                     ELSE LET t == _merge_local_files(parent, local, n + 1, f.next)
                          IN [ok |-> t.ok, kids |-> <<K(name, f.obj)>> \o t.kids,
                              next |-> t.next]))

_merge_file_specs(parent, local, next) ==
    Let(_merge_parent_files(parent, local, 1, next + 1), LAMBDA a :
    Let(IF a.ok THEN _merge_local_files(parent, local, 1, a.next)
        ELSE [ok |-> FALSE, kids |-> <<>>, next |-> a.next],
        LAMBDA b :
        [ok |-> b.ok, obj |-> Obj(next, "dict", "", "", 0, a.kids \o b.kids),
         next |-> b.next]))

\* _Context
Context(filters, stdout, stderr, files, setup, teardown, stdin, args, exit, repeat) ==
    [filters |-> filters, stdout |-> stdout, stderr |-> stderr, files |-> files,
     setup |-> setup, teardown |-> teardown, stdin |-> stdin, args |-> args,
     exit |-> exit, repeat |-> repeat]

\* the per-field rules of _merge_testcase
\* (a variant with the local filters first)
MergedFilters_LocalFirst(ctx, copy) == Get(copy, "filters").kids \o ctx.filters
MergedFilters(ctx, copy) == ctx.filters \o Get(copy, "filters").kids
MergedStdout(ctx, copy) == ctx.stdout \o Get(copy, "stdout").kids
MergedStderr(ctx, copy) == ctx.stderr \o Get(copy, "stderr").kids
MergedSetup(ctx, copy) == ctx.setup \o Get(copy, "setup").kids
\* (a variant treating teardown like setup)
MergedTeardown_ParentFirst(ctx, copy) == ctx.teardown \o Get(copy, "teardown").kids
MergedTeardown(ctx, copy) == Get(copy, "teardown").kids \o ctx.teardown
MergedArgs(ctx, copy) == ctx.args \o Get(copy, "args").kids
MergedStdin(ctx, copy) ==
    IF Get(copy, "stdin").cls # "none" THEN Get(copy, "stdin") ELSE ctx.stdin
\* (a variant written `copy.exit or ctx.exit`)
MergedExit_Truthy(ctx, copy) ==
    IF Truthy(Get(copy, "exit")) THEN Get(copy, "exit") ELSE ctx.exit
MergedExit(ctx, copy) ==
    IF Get(copy, "exit").cls # "none" THEN Get(copy, "exit") ELSE ctx.exit
\* (a variant where the local repeat replaces the inherited one)
MergedRepeat_Override(ctx, copy) == Get(copy, "repeat").i
MergedRepeat(ctx, copy) == ctx.repeat * Get(copy, "repeat").i

\* ctx.files of the children: {name: tuple(spec.ops)} over merged_files
ChildFiles(merged_files) ==
    [n \in DOMAIN merged_files.kids |->
        [name |-> merged_files.kids[n].key, ops |-> Get(merged_files.kids[n], "ops").kids]]

RECURSIVE _merge_testcase(_, _, _)
RECURSIVE _merge_children(_, _, _, _)

\* .obj is `copy` as the call leaves it (also when it raises: .ok = FALSE)
_merge_testcase(test, ctx, next) ==
    Let(model_copy_deep(test, next), LAMBDA c0 :
    Let(_clone_models(MergedFilters(ctx, c0.obj), c0.next), LAMBDA fi :
    Let(_clone_models(MergedStdout(ctx, c0.obj), fi.next), LAMBDA so :
    Let(_clone_models(MergedStderr(ctx, c0.obj), so.next), LAMBDA se :
    Let(_merge_file_specs(ctx.files, Get(c0.obj, "files"), se.next), LAMBDA fl :
    Let(_clone_models(MergedSetup(ctx, c0.obj), fl.next), LAMBDA su :
    Let(_clone_models(MergedTeardown(ctx, c0.obj), su.next), LAMBDA td :
    Let(NewList(MergedArgs(ctx, c0.obj), td.next), LAMBDA ar :
    LET copy == c0.obj
        stdin == MergedStdin(ctx, copy)
        exit == MergedExit(ctx, copy)
        repeat == MergedRepeat(ctx, copy)
        copy1 == Put(Put(Put(copy, "filters", fi.obj), "stdout", so.obj), "stderr", se.obj)
        copy2 == Put(Put(Put(Put(copy1, "files", fl.obj), "setup", su.obj),
                         "teardown", td.obj), "args", ar.obj)
        copy3 == Put(Put(Put(copy2, "stdin", stdin), "exit", exit), "repeat", PyInt(repeat))
        child_ctx ==
            Context(MergedFilters(ctx, copy), MergedStdout(ctx, copy), MergedStderr(ctx, copy),
                    ChildFiles(fl.obj),
                    MergedSetup(ctx, copy), MergedTeardown(ctx, copy),
                    stdin, MergedArgs(ctx, copy), exit, repeat)
    IN IF ~fl.ok THEN [ok |-> FALSE, obj |-> copy1, next |-> fl.next]
       ELSE IF Truthy(Get(copy, "tests"))
       THEN Let(_merge_children(Get(copy, "tests").kids, 1, child_ctx, ar.next), LAMBDA ch :
                IF ch.ok
                THEN [ok |-> TRUE, obj |-> Put(copy3, "tests", NewList(ch.kids, ch.next).obj),
                      next |-> NewList(ch.kids, ch.next).next]
                ELSE [ok |-> FALSE, obj |-> copy3, next |-> ch.next])
       ELSE [ok |-> TRUE, obj |-> copy3, next |-> ar.next]))))))))

\* [_merge_testcase(child, ctx) for child in tests]
_merge_children(tests, n, ctx, next) ==
    IF n > Len(tests) THEN [ok |-> TRUE, kids |-> <<>>, next |-> next]
    ELSE Let(_merge_testcase(tests[n], ctx, next), LAMBDA h :
             IF ~h.ok THEN [ok |-> FALSE, kids |-> <<>>, next |-> h.next]
             ELSE LET t == _merge_children(tests, n + 1, ctx, h.next)
                  IN [ok |-> t.ok, kids |-> <<K("", h.obj)>> \o t.kids, next |-> t.next])

\* base_ctx of merge_spec
BaseContext(m) ==
    Context(Get(m, "filters").kids, <<>>, <<>>, <<>>, <<>>, <<>>,
            Get(Get(m, "exec"), "stdin"), Get(Get(m, "exec"), "args").kids, PyNone, 1)

\* (a variant written `spec.model_copy()`: a new Spec sharing its fields)
CopySpec_Shallow(sp, next) == [obj |-> [sp EXCEPT !.oid = next], next |-> next + 1]
\* (a variant written `merged = spec`)
CopySpec_None(sp, next) == [obj |-> sp, next |-> next]
\* merged = spec.model_copy(deep=True)
CopySpec(sp, next) == model_copy_deep(sp, next)

\* merge_spec: .obj is `merged` as the call leaves it
merge_spec(sp, next) ==
    Let(CopySpec(sp, next), LAMBDA c0 :
    Let(_merge_children(Get(c0.obj, "tests").kids, 1, BaseContext(c0.obj), c0.next), LAMBDA ch :
        IF ch.ok
        THEN [ok |-> TRUE, obj |-> Put(c0.obj, "tests", NewList(ch.kids, ch.next).obj),
              next |-> NewList(ch.kids, ch.next).next]
        ELSE [ok |-> FALSE, obj |-> c0.obj, next |-> ch.next]))

\* What a holder of a reference into `tree` sees once `other` has been
\* built or written: an object of `tree` that `other` also holds (same
\* identity) has the state `other` gives it.
RECURSIVE ObjsAt(_, _)
ObjsAt(o, id) == (IF o.oid = id THEN {K("", o)} ELSE {})
                 \cup UNION {ObjsAt(o.kids[n], id) : n \in DOMAIN o.kids}

RECURSIVE SeenAfter(_, _)
SeenAfter(tree, other) ==
    IF tree.oid > 0 /\ ObjsAt(other, tree.oid) # {}
    THEN K(tree.key, CHOOSE x \in ObjsAt(other, tree.oid) : TRUE)
    ELSE [tree EXCEPT !.kids = [n \in DOMAIN tree.kids |-> SeenAfter(tree.kids[n], other)]]

----------------------------------------------------------------------------
(* Runtime texts *)

\* A text handled at run time (program output, file content) is the sequence
\* of its characters; texts that come from the document (expected values,
\* patterns) are strings.  "".join(cs)
RECURSIVE Join(_)
Join(cs) == IF cs = <<>> THEN "" ELSE Head(cs) \o Join(Tail(cs))

\* str.upper / str.lower / str.strip on the characters the outputs are made of
UpperOf(c) == CASE c = "a" -> "A" [] c = "b" -> "B" [] OTHER -> c
LowerOf(c) == CASE c = "A" -> "a" [] c = "B" -> "b" [] OTHER -> c
str_upper(v) == [n \in DOMAIN v |-> UpperOf(v[n])]
str_lower(v) == [n \in DOMAIN v |-> LowerOf(v[n])]

IsSpace(c) == c \in {" ", "\n"}
RECURSIVE lstrip(_)
lstrip(v) == IF v # <<>> /\ IsSpace(Head(v)) THEN lstrip(Tail(v)) ELSE v
RECURSIVE rstrip(_)
rstrip(v) == IF v # <<>> /\ IsSpace(v[Len(v)]) THEN rstrip(SubSeq(v, 1, Len(v) - 1)) ELSE v
str_strip(v) == rstrip(lstrip(v))

\* `expected in string`
str_contains(v, expected) ==
    \E a \in 1..(Len(v) + 1) : \E b \in (a - 1)..Len(v) : Join(SubSeq(v, a, b)) = expected

\* float(value): .ok is FALSE when it raises ValueError (the outputs hold
\* digits, letters and blanks only: no sign, point or exponent)
IsDigit(c) == \E d \in DOMAIN Digit : Digit[d] = c
DigitVal(c) == (CHOOSE d \in DOMAIN Digit : Digit[d] = c) - 1
RECURSIVE NatOf(_)
NatOf(v) == IF v = <<>> THEN 0 ELSE 10 * NatOf(SubSeq(v, 1, Len(v) - 1)) + DigitVal(v[Len(v)])
float(v) ==
    IF str_strip(v) # <<>> /\ \A n \in DOMAIN str_strip(v) : IsDigit(str_strip(v)[n])
    THEN [ok |-> TRUE, val |-> NatOf(str_strip(v))]
    ELSE [ok |-> FALSE, val |-> 0]

\* outcome of a call: it returns val, or raises the exception err
Ok(v) == [ok |-> TRUE, err |-> "", val |-> v]
Raise(e) == [ok |-> FALSE, err |-> e, val |-> PyNone]

----------------------------------------------------------------------------
(* filters.py: runtime filters and their registry *)

FilterBuiltins ==
    << "FilterNone", "FilterUppercase", "FilterLowercase", "FilterTrim",
       "FilterIgnoreSpaces", "FilterReplace", "FilterRegex", "FilterEval" >>

\* Filter.name(): no builtin sets registry_name, so it is the class name
\* without "Filter", in snake case
Filter_name(cls) ==
    CASE cls = "FilterNone" -> "none"
      [] cls = "FilterUppercase" -> "uppercase"
      [] cls = "FilterLowercase" -> "lowercase"
      [] cls = "FilterTrim" -> "trim"
      [] cls = "FilterIgnoreSpaces" -> "ignore_spaces"
      [] cls = "FilterReplace" -> "replace"
      [] cls = "FilterRegex" -> "regex"
      [] cls = "FilterEval" -> "eval"

\* the module-level loop registry.register(builtin): the keys of _storage
FilterRegistry == { Filter_name(FilterBuiltins[n]) : n \in DOMAIN FilterBuiltins }
Filter_storage(name) ==
    FilterBuiltins[CHOOSE n \in DOMAIN FilterBuiltins : Filter_name(FilterBuiltins[n]) = name]

\* keyword parameters of the constructors, and those without a default
Filter_params(cls) ==
    CASE cls \in {"FilterReplace"} -> {"pattern", "replacement", "input"}
      [] cls = "FilterRegex" -> {"pattern", "replacement", "flags", "input"}
      [] cls = "FilterEval" -> {"start", "end", "init", "input"}
      [] OTHER -> {"input"}
Filter_required(cls) ==
    IF cls \in {"FilterReplace", "FilterRegex"} THEN {"pattern", "replacement"} ELSE {}

\* FilterRegistry.create(name, **kwargs)
FilterRegistry_create(name, kwargs) ==
    IF name \notin FilterRegistry THEN Raise("FilterError")
    ELSE IF \/ \E n \in DOMAIN kwargs : kwargs[n].key \notin Filter_params(Filter_storage(name))
            \/ \E k \in Filter_required(Filter_storage(name)) :
                  \A n \in DOMAIN kwargs : kwargs[n].key # k
    THEN Raise("TypeError")
    ELSE Ok(PyModel(Filter_storage(name), "", kwargs))

\* re.sub for the patterns of the documents: one literal character,
\* replaced by at most one character
RECURSIVE re_sub(_, _, _)
re_sub(pattern, repl, value) ==
    IF value = <<>> THEN <<>>
    ELSE (IF Head(value) = pattern
          THEN (IF repl = "" THEN <<>> ELSE <<repl>>)
          ELSE <<Head(value)>>) \o re_sub(pattern, repl, Tail(value))

\* Filter.filter(value) = apply(value), for the classes _instantiate_filter
\* creates
Filter_filter(f, value) ==
    CASE f.cls = "FilterTrim" -> str_strip(value)
      [] f.cls = "FilterLowercase" -> str_lower(value)
      [] f.cls = "FilterUppercase" -> str_upper(value)
      [] f.cls = "FilterRegex" -> re_sub(Get(f, "pattern").s, Get(f, "replacement").s, value)

\* Filters.apply
RECURSIVE Filters_apply(_, _)
Filters_apply(filters, value) ==
    IF filters = <<>> THEN value
    ELSE Filters_apply(Tail(filters), Filter_filter(Head(filters), value))

----------------------------------------------------------------------------
(* matchers.py: runtime matchers *)

MatcherBuiltins ==
    << "MatchRegex", "MatchContains", "MatchNotContains", "MatchEquals",
       "MatchNotEquals", "MatchLt", "MatchLte", "MatchGt", "MatchGte",
       "MatchEval", "MatchCapture" >>

\* Matcher.name(): registry_name if the class sets one
Matcher_name(cls) ==
    CASE cls = "MatchRegex" -> "match"
      [] cls = "MatchContains" -> "contains"
      [] cls = "MatchNotContains" -> "not_contains"
      [] cls = "MatchEquals" -> "equals"
      [] cls = "MatchNotEquals" -> "not_equals"
      [] cls = "MatchLt" -> "lt"
      [] cls = "MatchLte" -> "lte"
      [] cls = "MatchGt" -> "gt"
      [] cls = "MatchGte" -> "gte"
      [] cls = "MatchEval" -> "check_eval"
      [] cls = "MatchCapture" -> "capture"

MatcherRegistry == { Matcher_name(MatcherBuiltins[n]) : n \in DOMAIN MatcherBuiltins }
Matcher_storage(name) ==
    MatcherBuiltins[CHOOSE n \in DOMAIN MatcherBuiltins : Matcher_name(MatcherBuiltins[n]) = name]

\* build_matcher on a CheckBase of the string and number kinds:
\* registry.create(kind, **check.model_dump(exclude={"kind"})); the
\* constructors of MatchNotContains / MatchNotEquals set inverse
build_matcher(check) ==
    IF check.s \notin MatcherRegistry THEN Raise("KeyError")
    ELSE Ok(PyModel(Matcher_storage(check.s), "",
                    check.kids \o <<K("inverse",
                        PyInt(IF check.s \in {"not_contains", "not_equals"} THEN 1 ELSE 0))>>))

\* Matcher._matches
Matcher_matches(m, value) ==
    CASE m.cls \in {"MatchContains", "MatchNotContains"} -> str_contains(value, Get(m, "value").s)
      [] m.cls \in {"MatchEquals", "MatchNotEquals"} -> Join(value) = Get(m, "value").s
      [] m.cls = "MatchLt" -> float(value).ok /\ float(value).val < Get(m, "value").i
      [] m.cls = "MatchLte" -> float(value).ok /\ float(value).val <= Get(m, "value").i
      [] m.cls = "MatchGt" -> float(value).ok /\ float(value).val > Get(m, "value").i
      [] m.cls = "MatchGte" -> float(value).ok /\ float(value).val >= Get(m, "value").i

\* MatcherError(value, expected, on, check, explain), details left out; value
\* and expected are Python values, a text being held as a str
MatcherError(value, expected, on, check, explain) ==
    [value |-> value, expected |-> expected, on |-> on, check |-> check, explain |-> explain]

\* Matcher.__call__(value, on=, test=): <<>> for None, else <<failure>>;
\* _failure stores context["test"] in the field `check`
Matcher_call(m, value, on, test) ==
    IF Matcher_matches(m, value) # (Get(m, "inverse").i = 1)
    THEN <<>>
    ELSE <<MatcherError(PyStr(Join(value)), Val(Get(m, "value")), on, test,
                        Val(Get(m, "explain")))>>

\* Matchers.evaluate
RECURSIVE Matchers_evaluate(_, _, _, _)
Matchers_evaluate(matchers, value, on, test) ==
    IF matchers = <<>> THEN <<>>
    ELSE Matcher_call(Head(matchers), value, on, test)
         \o Matchers_evaluate(Tail(matchers), value, on, test)

----------------------------------------------------------------------------
(* executable.py: Executable.__init__ *)

FORBIDDEN_BINARIES == {"rm", "mv", "dd", "wget", "mkfs"}

\* File names without a "/" (the others are written with their directory),
\* and the path shutil.which gives for a name found on the search path
BareNames == FORBIDDEN_BINARIES \cup {"prog"}
Located(name) == "/bin/" \o name

\* The file system as the constructor sees it: fs.cwd, the bare names that
\* are executable regular files of the working directory; fs.path, the bare
\* names shutil.which finds on the search path.
\* Executable._is_executable(filename)
_is_executable(filename, fs) ==
    IF filename \in BareNames THEN filename \in fs.cwd
    ELSE \E n \in fs.path : filename = Located(n)

\* Executable.__init__(filename): returns self.filename or raises
Executable_init(filename, fs) ==
    IF _is_executable(filename, fs) THEN Ok(PyStr(filename))
    ELSE IF filename \in BareNames /\ filename \in fs.path
    THEN IF filename \in FORBIDDEN_BINARIES THEN Raise("InvalidExecutableError")
         ELSE IF _is_executable(Located(filename), fs) THEN Ok(PyStr(Located(filename)))
         ELSE Raise("InvalidExecutableError")
    ELSE Raise("InvalidExecutableError")

\* Executable(filename): __new__ returns None for a falsy filename, and
\* __init__ is then not called; else the object __init__ leaves, or its error
Executable(filename, fs) ==
    IF filename = "" THEN Ok(PyNone) ELSE Executable_init(filename, fs)

----------------------------------------------------------------------------
(* suite.py: compiling a Spec into a TestSuite *)

\* the outcomes rs[1..] of a comprehension or loop whose items are built in
\* order: the list of the values, or the first exception
RECURSIVE FirstError(_)
FirstError(rs) ==
    IF rs = <<>> THEN ""
    ELSE IF ~Head(rs).ok THEN Head(rs).err ELSE FirstError(Tail(rs))
Collect(rs) ==
    IF \A n \in DOMAIN rs : rs[n].ok
    THEN [ok |-> TRUE, err |-> "", val |-> [n \in DOMAIN rs |-> rs[n].val]]
    ELSE [ok |-> FALSE, err |-> FirstError(rs), val |-> <<>>]

_instantiate_filter(filter_config) ==
    CASE filter_config.s = "trim" -> FilterRegistry_create("trim", <<>>)
      [] filter_config.s = "lower" -> FilterRegistry_create("lowercase", <<>>)
      [] filter_config.s = "upper" -> FilterRegistry_create("uppercase", <<>>)
      [] filter_config.s = "sub" ->
            FilterRegistry_create("regex", << K("pattern", Get(filter_config, "regex")),
                                              K("replacement", Get(filter_config, "repl")),
                                              K("flags", Get(filter_config, "flags")) >>)
      [] filter_config.s = "map_eval" ->
            FilterRegistry_create("map_eval", << K("expr", Get(filter_config, "expr")) >>)
      [] OTHER -> Raise("ValueError")

FilterBase == {"FTrim", "FLower", "FUpper", "FSub", "FMapEval"}

\* one item of the loop of _build_pipeline
PipelineStep(op) ==
    IF op.cls \in FilterBase
    THEN Let(_instantiate_filter(op), LAMBDA r :
             IF r.ok THEN Ok(PyModel("_FilterStep", "", <<K("filter", r.val)>>)) ELSE r)
    ELSE Let(build_matcher(op), LAMBDA r :
             IF r.ok THEN Ok(PyModel("_MatcherStep", "", <<K("matcher", r.val)>>)) ELSE r)

_build_pipeline(ops) == Collect([n \in DOMAIN ops |-> PipelineStep(ops[n])])

\* str(TestId)
RECURSIVE TestId_str(_)
TestId_str(parts) ==
    IF parts = <<>> THEN ""
    ELSE IF Len(parts) = 1 THEN NatStr(parts[1])
    ELSE NatStr(Head(parts)) \o "." \o TestId_str(Tail(parts))

\* _TestRuntime.__init__: the filters, then the pipelines of stdout, stderr
\* and of each file
_TestRuntime_init(test_id, case) ==
    Let(Collect([n \in DOMAIN Get(case, "filters").kids |->
                    _instantiate_filter(Get(case, "filters").kids[n])]), LAMBDA fi :
    Let(IF fi.ok THEN _build_pipeline(Get(case, "stdout").kids) ELSE fi, LAMBDA so :
    Let(IF so.ok THEN _build_pipeline(Get(case, "stderr").kids) ELSE so, LAMBDA se :
    Let(IF se.ok
        THEN Collect([n \in DOMAIN Get(case, "files").kids |->
                        _build_pipeline(Get(Get(case, "files").kids[n], "ops").kids)])
        ELSE se, LAMBDA fl :
        IF ~fl.ok THEN [ok |-> FALSE, err |-> fl.err, val |-> <<>>]
        ELSE [ok |-> TRUE, err |-> "",
              val |-> [test_id |-> test_id, case |-> case, filters |-> fi.val,
                       stdout |-> so.val, stderr |-> se.val,
                       files |-> [n \in DOMAIN fl.val |->
                                     [name |-> Get(case, "files").kids[n].key,
                                      steps |-> fl.val[n]]]]]))))

\* TestNode(test_id, name, description, runtime, children); runtime is <<>>
\* for None, else <<the _TestRuntime>>
TestNode(test_id, name, description, runtime, children) ==
    [test_id |-> test_id, name |-> name, description |-> description,
     runtime |-> runtime, tests |-> children]

\* `case.tests or []`
CaseTests(case) == IF Truthy(Get(case, "tests")) THEN Get(case, "tests").kids ELSE <<>>

\* _build_nodes: for each case, in order, its children, then its runtime
\* (`if case.tests: runtime = None`), then the node
RECURSIVE _build_nodes(_, _)

\* a variant of _build_nodes that numbers the children without their parent's id
_build_nodes_FlatIds(tests, parent_id) ==
    Collect([index \in DOMAIN tests |->
        Let(_build_nodes(CaseTests(tests[index]), <<index>>), LAMBDA children :
            IF ~children.ok THEN children
            ELSE IF Truthy(Get(tests[index], "tests"))
            THEN Ok(TestNode(<<index>>, Get(tests[index], "name").s,
                             Val(Get(tests[index], "description")), <<>>, children.val))
            ELSE Let(_TestRuntime_init(<<index>>, tests[index]), LAMBDA rt :
                     IF ~rt.ok THEN rt
                     ELSE Ok(TestNode(<<index>>, Get(tests[index], "name").s,
                                      Val(Get(tests[index], "description")),
                                      <<rt.val>>, children.val))))])

_build_nodes(tests, parent_id) ==
    Collect([index \in DOMAIN tests |->
        Let(_build_nodes(CaseTests(tests[index]), Append(parent_id, index)), LAMBDA children :
            IF ~children.ok THEN children
            ELSE IF Truthy(Get(tests[index], "tests"))
            THEN Ok(TestNode(Append(parent_id, index), Get(tests[index], "name").s,
                             Val(Get(tests[index], "description")), <<>>, children.val))
            ELSE Let(_TestRuntime_init(Append(parent_id, index), tests[index]), LAMBDA rt :
                     IF ~rt.ok THEN rt
                     ELSE Ok(TestNode(Append(parent_id, index), Get(tests[index], "name").s,
                                      Val(Get(tests[index], "description")),
                                      <<rt.val>>, children.val))))])

\* _split_command
_split_command(cmd) ==
    IF cmd.cls = "str" THEN Ok(cmd)
    ELSE IF cmd.kids = <<>> THEN Raise("ValueError")
    ELSE Ok(cmd.kids[1])

\* build_suite(spec) with the file system fs: the TestSuite's nodes (val)
\* and its executable
build_suite(sp, fs) ==
    Let(_split_command(Get(Get(sp, "exec"), "cmd")), LAMBDA cmd :
        IF ~cmd.ok THEN [ok |-> FALSE, err |-> cmd.err, val |-> <<>>, executable |-> PyNone]
        ELSE Let(Executable(cmd.val.s, fs), LAMBDA executable :
             IF ~executable.ok
             THEN [ok |-> FALSE, err |-> executable.err, val |-> <<>>, executable |-> PyNone]
             ELSE Let(_build_nodes(Get(sp, "tests").kids, <<>>), LAMBDA nodes :
                  [ok |-> nodes.ok, err |-> nodes.err, val |-> nodes.val,
                   executable |-> IF nodes.ok THEN executable.val ELSE PyNone])))

----------------------------------------------------------------------------
(* suite.py: _StreamRuntime.evaluate *)

FilterApplication(name, before, after) == [name |-> name, before |-> before, after |-> after]

\* _apply_filter on the running state acc of evaluate (current, history,
\* failures; acc.seen lists the values handed to the matchers, for the
\* properties below)
_apply_filter(filter_, acc) ==
    Let(Filter_filter(filter_, acc.current), LAMBDA after :
        [acc EXCEPT !.current = after,
                    !.history = Append(@, FilterApplication(Filter_name(filter_.cls),
                                                            acc.current, after))])

RECURSIVE _global_filters_loop(_, _)
_global_filters_loop(filters, acc) ==
    IF filters = <<>> THEN acc
    ELSE _global_filters_loop(Tail(filters), _apply_filter(Head(filters), acc))

RECURSIVE _steps_loop(_, _, _, _)
_steps_loop(steps, acc, stream_name, test) ==
    IF steps = <<>> THEN acc
    ELSE _steps_loop(Tail(steps),
                     IF Head(steps).cls = "_FilterStep"
                     THEN _apply_filter(Get(Head(steps), "filter"), acc)
                     ELSE [acc EXCEPT
                             !.failures = @ \o Matcher_call(Get(Head(steps), "matcher"),
                                                            acc.current, stream_name, test),
                             !.seen = Append(@, acc.current)],
                     stream_name, test)

\* a variant of the steps loop that ends at the first failing check
RECURSIVE _steps_loop_StopAtFailure(_, _, _, _)
_steps_loop_StopAtFailure(steps, acc, stream_name, test) ==
    IF steps = <<>> \/ acc.failures # <<>> THEN acc
    ELSE _steps_loop_StopAtFailure(Tail(steps),
                     IF Head(steps).cls = "_FilterStep"
                     THEN _apply_filter(Get(Head(steps), "filter"), acc)
                     ELSE [acc EXCEPT
                             !.failures = @ \o Matcher_call(Get(Head(steps), "matcher"),
                                                            acc.current, stream_name, test),
                             !.seen = Append(@, acc.current)],
                     stream_name, test)

evaluate_StopAtFailure(steps, value, stream_name, test_id, global_filters) ==
    Let(_steps_loop_StopAtFailure(steps,
                    _global_filters_loop(global_filters,
                        [current |-> value, history |-> <<>>, failures |-> <<>>,
                         seen |-> <<>>]),
                    stream_name, TestId_str(test_id)),
        LAMBDA acc : [name |-> stream_name, original |-> value, filtered |-> acc.current,
                      filters |-> acc.history, failures |-> acc.failures, seen |-> acc.seen])

\* a variant of evaluate that runs every filter of the list before any check
evaluate_FiltersFirst(steps, value, stream_name, test_id, global_filters) ==
    Let(_steps_loop(SelectSeq(steps, LAMBDA st : st.cls = "_FilterStep")
                        \o SelectSeq(steps, LAMBDA st : st.cls = "_MatcherStep"),
                    _global_filters_loop(global_filters,
                        [current |-> value, history |-> <<>>, failures |-> <<>>,
                         seen |-> <<>>]),
                    stream_name, TestId_str(test_id)),
        LAMBDA acc : [name |-> stream_name, original |-> value, filtered |-> acc.current,
                      filters |-> acc.history, failures |-> acc.failures, seen |-> acc.seen])

\* _StreamRuntime(steps).evaluate(value, stream_name=, test_id=, global_filters=)
evaluate(steps, value, stream_name, test_id, global_filters) ==
    Let(_steps_loop(steps,
                    _global_filters_loop(global_filters,
                        [current |-> value, history |-> <<>>, failures |-> <<>>,
                         seen |-> <<>>]),
                    stream_name, TestId_str(test_id)),
        LAMBDA acc : [name |-> stream_name, original |-> value, filtered |-> acc.current,
                      filters |-> acc.history, failures |-> acc.failures, seen |-> acc.seen])

----------------------------------------------------------------------------
(* suite.py: running a leaf, a node, the suite *)

TestRunResult(test_id, name, description, iterations, failures) ==
    [test_id |-> test_id, name |-> name, description |-> description,
     iterations |-> iterations, failures |-> failures]

\* What a run does to the outside world, in order: a hook started
\* (phase "setup" / "teardown", n its position) or the process runner called
\* (phase "iteration", n the iteration), and whether that raised
Effect(phase, test_id, n, failed) ==
    [phase |-> phase, test |-> test_id, n |-> n, failed |-> failed]

\* What the outside world answers during one call of run:
\*   env.failing - the hook commands and statements that fail when started
\*       during that call (CalledProcessError, ContextError);
\*   env.raises - Executable.run raises; else it returns
\*       Outputs(env.exit_status, env.stdout, env.stderr);
\*   env.missing - the declared files that do not exist; the others hold
\*       env.content.
\* _run_hooks: the hooks are started in order up to the first that fails;
\* .done is the number of hooks started
_run_hooks(hooks, failing) ==
    LET bad == { n \in DOMAIN hooks : Get(hooks[n], "value").s \in failing }
    IN IF bad = {}
       THEN [ok |-> TRUE, done |-> Len(hooks)]
       ELSE [ok |-> FALSE, done |-> CHOOSE n \in bad : \A m \in bad : n <= m]

\* the first `done` steps of a phase were started; the last one raised
\* unless ok
Effects(phase, test_id, done, ok) ==
    [n \in 1..done |-> Effect(phase, test_id, n, n = done /\ ~ok)]

\* _TestRuntime._limits: self.case.ulimit is an undeclared attribute of a
\* pydantic model unless the class has the field
_limits(case) ==
    IF ~Has(case, "ulimit") THEN Raise("AttributeError") ELSE Ok(Get(case, "ulimit"))

\* the loop over self.files.items() of one iteration
_file_results(rt, env) ==
    [n \in DOMAIN rt.files |->
        IF rt.files[n].name \in env.missing
        THEN [name |-> rt.files[n].name, original |-> <<>>, filtered |-> <<>>,
              filters |-> <<>>,
              failures |-> <<MatcherError(PyNone, PyStr(rt.files[n].name), rt.files[n].name,
                                          "exists", PyNone)>>,
              seen |-> <<>>]
        ELSE evaluate(rt.files[n].steps, env.content, rt.files[n].name, rt.test_id,
                      rt.filters)]

RECURSIVE Failures(_)
Failures(evaluations) ==
    IF evaluations = <<>> THEN <<>>
    ELSE Head(evaluations).failures \o Failures(Tail(evaluations))

\* one pass of the loop `for index in range(1, repeat + 1)`, once the
\* arguments are rendered (the documents hold no template); an exception
\* ends run()
_iteration(rt, index, env) ==
    IF ~Has(rt.case, "timeout") THEN Raise("AttributeError")
    ELSE IF env.raises THEN Raise("OSError")
    ELSE
    Let(<< evaluate(rt.stdout, env.stdout, "stdout", rt.test_id, rt.filters),
           evaluate(rt.stderr, env.stderr, "stderr", rt.test_id, rt.filters) >>,
        LAMBDA streams :
    Let(_file_results(rt, env), LAMBDA files :
    Let(IF Get(rt.case, "exit").cls # "none" /\ env.exit_status # Get(rt.case, "exit").i
        THEN <<MatcherError(PyInt(env.exit_status), Val(Get(rt.case, "exit")), "exit", "exit",
                            PyNone)>>
        ELSE <<>>, LAMBDA exit_failures :
        [ok |-> TRUE, err |-> "",
         val |-> [index |-> index, exit_status |-> env.exit_status,
                  expected_exit |-> Val(Get(rt.case, "exit")),
                  streams |-> streams, files |-> files,
                  failures |-> Failures(streams) \o Failures(files) \o exit_failures]])))

\* the iterations index..repeat; .started counts the iterations that reach
\* the call of the process runner
RECURSIVE _iterations(_, _, _, _)
_iterations(rt, index, repeat, env) ==
    IF index > repeat THEN [ok |-> TRUE, err |-> "", val |-> <<>>, started |-> 0]
    ELSE Let(_iteration(rt, index, env), LAMBDA it :
         IF ~it.ok
         THEN [ok |-> FALSE, err |-> it.err, val |-> <<>>,
               started |-> IF Has(rt.case, "timeout") THEN 1 ELSE 0]
         ELSE LET rest == _iterations(rt, index + 1, repeat, env)
              IN [ok |-> rest.ok, err |-> rest.err, val |-> <<it.val>> \o rest.val,
                  started |-> 1 + rest.started])

Max(a, b) == IF a >= b THEN a ELSE b

SetupFailure == MatcherError(PyNone, PyNone, "setup", "setup", PyNone)
TeardownFailure == MatcherError(PyNone, PyNone, "teardown", "teardown", PyNone)

\* the part of _TestRuntime.run after the setup hooks succeeded
_run_after_setup(rt, env, setup_effects) ==
    IF ~_limits(rt.case).ok
    THEN [raised |-> _limits(rt.case).err, results |-> <<>>, effects |-> setup_effects]
    ELSE
    Let(_iterations(rt, 1, Max(Get(rt.case, "repeat").i, 1), env), LAMBDA its :
        IF ~its.ok
        THEN [raised |-> its.err, results |-> <<>>,
              effects |-> setup_effects \o Effects("iteration", rt.test_id, its.started, FALSE)]
        ELSE
        Let(_run_hooks(Get(rt.case, "teardown").kids, env.failing), LAMBDA td :
            [raised |-> "",
             results |-> <<TestRunResult(rt.test_id, Get(rt.case, "name").s,
                              Val(Get(rt.case, "description")), its.val,
                              Failures(its.val)
                                \o (IF td.ok THEN <<>> ELSE <<TeardownFailure>>))>>,
             effects |-> setup_effects
                         \o Effects("iteration", rt.test_id, its.started, TRUE)
                         \o Effects("teardown", rt.test_id, td.done, td.ok)]))

\* _TestRuntime.run(): .raised is the exception that leaves run ("" if it
\* returns), .results the TestRunResult returned, .effects what it did
_TestRuntime_run_NoReturn(rt, env) ==
    Let(_run_hooks(Get(rt.case, "setup").kids, env.failing), LAMBDA su :
        _run_after_setup(rt, env, Effects("setup", rt.test_id, su.done, su.ok)))
_TestRuntime_run(rt, env) ==
    Let(_run_hooks(Get(rt.case, "setup").kids, env.failing), LAMBDA su :
        IF ~su.ok
        THEN [raised |-> "",
              results |-> <<TestRunResult(rt.test_id, Get(rt.case, "name").s,
                               Val(Get(rt.case, "description")), <<>>, <<SetupFailure>>)>>,
              effects |-> Effects("setup", rt.test_id, su.done, FALSE)]
        ELSE _run_after_setup(rt, env, Effects("setup", rt.test_id, su.done, TRUE)))

\* TestNode.run() and the loop shared with TestSuite.run(): the children run
\* in order until one raises
RECURSIVE TestNode_run(_, _)
RECURSIVE _run_nodes(_, _)
TestNode_run(node, env) ==
    IF node.runtime # <<>> THEN _TestRuntime_run(node.runtime[1], env)
    ELSE _run_nodes(node.tests, env)
_run_nodes(nodes, env) ==
    IF nodes = <<>> THEN [raised |-> "", results |-> <<>>, effects |-> <<>>]
    ELSE Let(TestNode_run(Head(nodes), env), LAMBDA out :
         IF out.raised # "" THEN out
         ELSE LET rest == _run_nodes(Tail(nodes), env)
              IN [raised |-> rest.raised,
                  results |-> IF rest.raised # "" THEN <<>> ELSE out.results \o rest.results,
                  effects |-> out.effects \o rest.effects])

\* TestSuite.run()
TestSuite_run(nodes, env) == _run_nodes(nodes, env)

----------------------------------------------------------------------------
(* ids.py: TestId *)

\* a str value with its characters, a tuple of integers
IdStr(cs) == Obj(0, "str", "", Join(cs), 0, [n \in DOMAIN cs |-> PyStr(cs[n])])
Tuple(parts) == PyList([n \in DOMAIN parts |-> PyInt(parts[n])])
Chars(v) == [n \in DOMAIN v.kids |-> v.kids[n].s]

\* str.split("."): the chunks between the dots
RECURSIVE split(_, _)
split(cs, chunk) ==
    IF cs = <<>> THEN <<chunk>>
    ELSE IF Head(cs) = "." THEN <<chunk>> \o split(Tail(cs), <<>>)
    ELSE split(Tail(cs), Append(chunk, Head(cs)))

\* _VALID_ID.fullmatch(value): digits, then groups of a dot and digits
_VALID_ID(cs) ==
    \A n \in DOMAIN split(cs, <<>>) :
        /\ split(cs, <<>>)[n] # <<>>
        /\ \A k \in DOMAIN split(cs, <<>>)[n] : IsDigit(split(cs, <<>>)[n][k])

\* the checks at the end of TestId.__init__ on the parts found
TestId_check(parts) ==
    IF ~parts.ok THEN parts
    ELSE IF parts.val = <<>> THEN Raise("ValueError")
    ELSE IF \E n \in DOMAIN parts.val : parts.val[n] < 1 THEN Raise("ValueError")
    ELSE parts

\* a variant of the checks that accepts any non-empty tuple
TestId_init_Unchecked(value) ==
    CASE value.cls = "none" -> Ok(<<1>>)
      [] value.cls = "TestId" -> Ok([n \in DOMAIN value.kids |-> value.kids[n].i])
      [] value.cls = "int" -> Ok(<<value.i>>)
      [] value.cls = "str" ->
            IF ~_VALID_ID(Chars(value)) THEN Raise("ValueError")
            ELSE Ok([n \in DOMAIN split(Chars(value), <<>>) |->
                        NatOf(split(Chars(value), <<>>)[n])])
      [] OTHER ->
            IF value.kids = <<>> THEN Raise("ValueError")
            ELSE Ok([n \in DOMAIN value.kids |-> value.kids[n].i])

\* TestId(value): the parts of the new identifier, or the error raised
TestId_init(value) ==
    TestId_check(
        CASE value.cls = "none" -> Ok(<<1>>)
          [] value.cls = "TestId" -> Ok([n \in DOMAIN value.kids |-> value.kids[n].i])
          [] value.cls = "int" -> Ok(<<value.i>>)
          [] value.cls = "str" ->
                IF ~_VALID_ID(Chars(value)) THEN Raise("ValueError")
                ELSE Ok([n \in DOMAIN split(Chars(value), <<>>) |->
                            NatOf(split(Chars(value), <<>>)[n])])
          [] OTHER ->
                IF \E n \in DOMAIN value.kids : value.kids[n].cls # "int"
                THEN Raise("TypeError")
                ELSE Ok([n \in DOMAIN value.kids |-> value.kids[n].i]))

\* TestId.next(step)
TestId_next(parts, step) ==
    IF step.cls # "int" THEN Raise("TypeError")
    ELSE IF step.i < 1 THEN Raise("ValueError")
    ELSE TestId_init(Tuple([n \in DOMAIN parts |->
                               IF n = Len(parts) THEN parts[n] + step.i ELSE parts[n]]))

\* TestId.down(start)
TestId_down(parts, start) ==
    IF start.cls # "int" THEN Raise("TypeError")
    ELSE IF start.i < 1 THEN Raise("ValueError")
    ELSE TestId_init(Tuple(Append(parts, start.i)))

\* a variant of up that goes back to the first part
TestId_up_ToRoot(parts) == TestId_init(Tuple(<<parts[1]>>))

\* TestId.up(): for a one-part identifier `return self`
TestId_up(parts) ==
    IF Len(parts) = 1 THEN Ok(parts)
    ELSE TestId_init(Tuple(SubSeq(parts, 1, Len(parts) - 1)))

----------------------------------------------------------------------------
(* ids.py: TrackId. A tracker is [current, last, stack]: the parts of
   _current, _last as <<>> for None or <<parts>>, and the pairs pushed on
   _stack. Each callback gives the tracker after it and the error it raised. *)

\* TrackId(start)
TrackId_init(start) ==
    [t |-> [current |-> TestId_init(start).val, last |-> <<>>, stack |-> <<>>],
     raised |-> TestId_init(start).err]

\* TrackId.reset(value)(payload): TestId(value) is built before any assignment
_reset(t, value) ==
    IF TestId_init(value).ok
    THEN [t |-> [current |-> TestId_init(value).val, last |-> <<>>, stack |-> <<>>],
          raised |-> ""]
    ELSE [t |-> t, raised |-> TestId_init(value).err]

\* TrackId.down(start)(payload): the pair is pushed before base.down(start)
\* can raise
_down(t, start) ==
    Let(IF t.last # <<>> THEN t.last[1] ELSE t.current, LAMBDA base :
        IF TestId_down(base, start).ok
        THEN [t |-> [current |-> TestId_down(base, start).val, last |-> <<>>,
                     stack |-> Append(t.stack, [current |-> t.current, last |-> t.last])],
              raised |-> ""]
        ELSE [t |-> [t EXCEPT !.stack = Append(@, [current |-> t.current,
                                                   last |-> t.last])],
              raised |-> TestId_down(base, start).err])

\* a variant of _up that forgets the pair pushed by down
_up_Parent(t) ==
    [t |-> [current |-> TestId_up(t.current).val, last |-> <<>>,
            stack |-> IF t.stack = <<>> THEN <<>>
                      ELSE SubSeq(t.stack, 1, Len(t.stack) - 1)],
     raised |-> ""]

\* TrackId.up()(payload)
_up(t) ==
    IF t.stack # <<>>
    THEN [t |-> [current |-> t.stack[Len(t.stack)].current,
                 last |-> t.stack[Len(t.stack)].last,
                 stack |-> SubSeq(t.stack, 1, Len(t.stack) - 1)],
          raised |-> ""]
    ELSE [t |-> [t EXCEPT !.current = TestId_up(t.current).val, !.last = <<>>],
          raised |-> ""]

\* TrackId.next(step)(payload): payload["test_id"] and _last are assigned
\* before current.next(step) can raise
_next(t, step) ==
    [t |-> [t EXCEPT !.last = <<t.current>>,
                     !.current = IF TestId_next(t.current, step).ok
                                 THEN TestId_next(t.current, step).val ELSE @],
     test_id |-> t.current,
     raised |-> TestId_next(t.current, step).err]

----------------------------------------------------------------------------
(* context.py. An expression, a statement and the inside of a mustache are
   sequences of tokens written with blanks between them: a name, an integer
   literal, an operator ("+", "//", "++", "=", ":"), and, once the increments
   are rewritten, a call of _ctx_pre_inc or _ctx_post_inc on a name. The
   namespace _locals is a function from names to integers. *)

Nm(s) == [t |-> "name", s |-> s, i |-> 0]
Num(i) == [t |-> "int", s |-> NatStr(i), i |-> i]
Op(s) == [t |-> "op", s |-> s, i |-> 0]
Helper(kind, s) == [t |-> kind, s |-> s, i |-> 0]

\* _PRE_INC_RE.sub(_pre, expr): "++" then a name
RECURSIVE _PRE_INC_RE_sub(_)
_PRE_INC_RE_sub(ts) ==
    IF ts = <<>> THEN <<>>
    ELSE IF Len(ts) >= 2 /\ ts[1] = Op("++") /\ ts[2].t = "name"
    THEN <<Helper("pre", ts[2].s)>> \o _PRE_INC_RE_sub(SubSeq(ts, 3, Len(ts)))
    ELSE <<ts[1]>> \o _PRE_INC_RE_sub(Tail(ts))

\* _POST_INC_RE.sub(_post, rewritten): a name then "++"
RECURSIVE _POST_INC_RE_sub(_)
_POST_INC_RE_sub(ts) ==
    IF ts = <<>> THEN <<>>
    ELSE IF Len(ts) >= 2 /\ ts[1].t = "name" /\ ts[2] = Op("++")
    THEN <<Helper("post", ts[1].s)>> \o _POST_INC_RE_sub(SubSeq(ts, 3, Len(ts)))
    ELSE <<ts[1]>> \o _POST_INC_RE_sub(Tail(ts))

_rewrite_increments(expr) == _POST_INC_RE_sub(_PRE_INC_RE_sub(expr))

\* Python reads a "++" left in the text as two "+"
RECURSIVE Plusses(_)
Plusses(ts) ==
    IF ts = <<>> THEN <<>>
    ELSE (IF ts[1] = Op("++") THEN <<Op("+"), Op("+")>> ELSE <<ts[1]>>) \o Plusses(Tail(ts))

IsAtom(tok) == tok.t \in {"name", "int", "pre", "post"}

\* compile(source, "<context>", "eval"): operands, each after any number of
\* unary "+", with "+" or "//" between them; FALSE is SyntaxError
RECURSIVE Parses(_, _)
Parses(ts, operand) ==
    IF ts = <<>> THEN ~operand
    ELSE IF operand
    THEN IF ts[1] = Op("+") THEN Parses(Tail(ts), TRUE)
         ELSE IsAtom(ts[1]) /\ Parses(Tail(ts), FALSE)
    ELSE ts[1] \in {Op("+"), Op("//")} /\ Parses(Tail(ts), TRUE)
compile(source) == Parses(Plusses(source), TRUE)

\* the operands and binary operators of a source that compiles
RECURSIVE Binary(_, _)
Binary(ts, operand) ==
    IF ts = <<>> THEN <<>>
    ELSE IF operand /\ ts[1] = Op("+") THEN Binary(Tail(ts), TRUE)
    ELSE <<ts[1]>> \o Binary(Tail(ts), ~operand)

\* a variant of _pre_inc that returns the value read
_pre_inc_Old(ns, name) ==
    IF name \notin DOMAIN ns THEN [err |-> "NameError", val |-> 0, ns |-> ns]
    ELSE [err |-> "", val |-> ns[name], ns |-> [ns EXCEPT ![name] = @ + 1]]

\* Context._pre_inc(name)
_pre_inc(ns, name) ==
    IF name \notin DOMAIN ns THEN [err |-> "NameError", val |-> 0, ns |-> ns]
    ELSE [err |-> "", val |-> ns[name] + 1, ns |-> [ns EXCEPT ![name] = @ + 1]]

\* Context._post_inc(name)
_post_inc(ns, name) ==
    IF name \notin DOMAIN ns THEN [err |-> "NameError", val |-> 0, ns |-> ns]
    ELSE [err |-> "", val |-> ns[name], ns |-> [ns EXCEPT ![name] = @ + 1]]

\* the value of one operand in the namespace
Operand(tok, ns) ==
    CASE tok.t = "int" -> [err |-> "", val |-> tok.i, ns |-> ns]
      [] tok.t = "pre" -> _pre_inc(ns, tok.s)
      [] tok.t = "post" -> _post_inc(ns, tok.s)
      [] OTHER -> IF tok.s \in DOMAIN ns THEN [err |-> "", val |-> ns[tok.s], ns |-> ns]
                  ELSE [err |-> "NameError", val |-> 0, ns |-> ns]

\* eval(compiled, _globals, _locals): the operands are evaluated from left
\* to right, "//" binds tighter than "+"; sum holds the terms done, term the
\* one being divided
RECURSIVE eval_loop(_, _, _, _)
eval_loop(ts, sum, term, ns) ==
    IF ts = <<>> THEN [err |-> "", val |-> sum + term, ns |-> ns]
    ELSE Let(Operand(ts[2], ns), LAMBDA o :
         IF o.err # "" THEN o
         ELSE IF ts[1] = Op("+")
         THEN eval_loop(SubSeq(ts, 3, Len(ts)), sum + term, o.val, o.ns)
         ELSE IF o.val = 0 THEN [err |-> "ZeroDivisionError", val |-> 0, ns |-> o.ns]
         ELSE eval_loop(SubSeq(ts, 3, Len(ts)), sum, term \div o.val, o.ns))
eval(source, ns) ==
    Let(Binary(Plusses(source), TRUE), LAMBDA ts :
    Let(Operand(ts[1], ns), LAMBDA o :
        IF o.err # "" THEN o ELSE eval_loop(Tail(ts), 0, o.val, o.ns)))

\* what a call on a Context gives: the exception that leaves it ("" when it
\* returns) with the expression, template and code it carries (<<>> for
\* None, else <<text>>), the value returned and the namespace after it
Returned(val, ns) ==
    [raised |-> "", expression |-> <<>>, template |-> <<>>, code |-> <<>>,
     val |-> val, ns |-> ns]
ContextError(expression, template, code, ns) ==
    [raised |-> "ContextError", expression |-> expression, template |-> template,
     code |-> code, val |-> 0, ns |-> ns]
Escapes(exc, ns) ==
    [raised |-> exc, expression |-> <<>>, template |-> <<>>, code |-> <<>>,
     val |-> 0, ns |-> ns]

\* Context.execute(code): one statement, `name = expression` or an expression
Context_execute(ns, code) ==
    IF code = <<>> THEN Returned(0, ns)
    ELSE Let(IF Len(code) >= 2 /\ code[1].t = "name" /\ code[2] = Op("=")
             THEN SubSeq(code, 3, Len(code)) ELSE code, LAMBDA source :
         IF ~compile(source) THEN ContextError(<<>>, <<>>, <<code>>, ns)
         ELSE Let(eval(source, ns), LAMBDA r :
              IF r.err # "" THEN ContextError(<<>>, <<>>, <<code>>, r.ns)
              ELSE IF source = code THEN Returned(0, r.ns)
              ELSE Returned(0, [n \in DOMAIN r.ns \cup {code[1].s} |->
                                  IF n = code[1].s THEN r.val ELSE r.ns[n]])))

\* Context.evaluate(expression)
Context_evaluate(ns, expression) ==
    IF expression = <<>> THEN ContextError(<<expression>>, <<>>, <<>>, ns)
    ELSE IF ~compile(_rewrite_increments(expression))
    THEN ContextError(<<expression>>, <<>>, <<>>, ns)
    ELSE Let(eval(_rewrite_increments(expression), ns), LAMBDA r :
         IF r.err # "" THEN ContextError(<<expression>>, <<>>, <<>>, r.ns)
         ELSE Returned(r.val, r.ns))

\* _split_format_spec(expr): the text is cut at the first ":" (there is no
\* bracket or quote among the tokens); fmt is <<>> for None
RECURSIVE Colon(_, _)
Colon(ts, n) ==
    IF n > Len(ts) THEN 0 ELSE IF ts[n] = Op(":") THEN n ELSE Colon(ts, n + 1)
RECURSIVE TokenText(_)
TokenText(ts) == IF ts = <<>> THEN "" ELSE ts[1].s \o TokenText(Tail(ts))
_split_format_spec(expr) ==
    IF Colon(expr, 1) = 0 THEN [expr |-> expr, fmt |-> <<>>]
    ELSE [expr |-> SubSeq(expr, 1, Colon(expr, 1) - 1),
          fmt |-> IF Colon(expr, 1) = Len(expr) THEN <<>>
                  ELSE <<TokenText(SubSeq(expr, Colon(expr, 1) + 1, Len(expr)))>>]

\* format(value, fmt) of an integer: "d" is its decimal text, a text that
\* is no format specification raises ValueError
format(value, fmt) ==
    IF fmt = "d" THEN Ok(IntStr(value)) ELSE Raise("ValueError")

\* a template is a sequence of texts and mustaches
Lit(text) == [m |-> FALSE, text |-> text, inner |-> <<>>]
M(inner) == [m |-> TRUE, text |-> "", inner |-> inner]

\* _MUSTACHE_RE.sub(_replace, template): the mustaches are replaced from
\* left to right, an exception in _replace ends the substitution
RECURSIVE _MUSTACHE_RE_sub(_, _, _)
_MUSTACHE_RE_sub(parts, out, ns) ==
    IF parts = <<>> THEN [raised |-> "", expression |-> <<>>, template |-> <<>>,
                          code |-> <<>>, val |-> out, ns |-> ns]
    ELSE IF ~parts[1].m THEN _MUSTACHE_RE_sub(Tail(parts), out \o parts[1].text, ns)
    ELSE Let(_split_format_spec(parts[1].inner), LAMBDA sp :
         Let(Context_evaluate(ns, sp.expr), LAMBDA v :
             IF v.raised # "" THEN v
             ELSE IF sp.fmt = <<>>
             THEN _MUSTACHE_RE_sub(Tail(parts), out \o IntStr(v.val), v.ns)
             ELSE IF ~format(v.val, sp.fmt[1]).ok
             THEN Escapes(format(v.val, sp.fmt[1]).err, v.ns)
             ELSE _MUSTACHE_RE_sub(Tail(parts), out \o format(v.val, sp.fmt[1]).val, v.ns)))

\* Context.render(template): only ContextError is caught
Context_render(ns, template) ==
    Let(_MUSTACHE_RE_sub(template, "", ns), LAMBDA r :
        IF r.raised = "ContextError"
        THEN ContextError(r.expression, <<template>>, <<>>, r.ns)
        ELSE r)

----------------------------------------------------------------------------
(* suite.py: _TestRuntime.run seen from its Context. A leaf is its TestCase
   (rt.case, for _limits), its setup and teardown steps [kind, value], its
   args (templates) and the expressions of its check_eval checks; the hook
   texts hold no mustache, so ctx.render returns them as they are. The log
   has one entry for each use of the Context: the phase, the names visible
   before it and the exception it raised. *)

Use(phase, ns, raised) == [phase |-> phase, visible |-> DOMAIN ns, raised |-> raised]

\* _run_hooks(ctx, hooks): eval steps are executed in ctx, run steps are
\* commands (failing: the commands that fail); the first exception ends it
RECURSIVE _run_hooks_ctx(_, _, _, _)
_run_hooks_ctx(hooks, ns, failing, phase) ==
    IF hooks = <<>> THEN [ok |-> TRUE, ns |-> ns, log |-> <<>>]
    ELSE Let(IF hooks[1].kind = "eval" THEN Context_execute(ns, hooks[1].value)
             ELSE IF hooks[1].value \in failing THEN Escapes("CalledProcessError", ns)
             ELSE Returned(0, ns), LAMBDA r :
         IF r.raised # "" THEN [ok |-> FALSE, ns |-> r.ns, log |-> <<Use(phase, ns, r.raised)>>]
         ELSE Let(_run_hooks_ctx(Tail(hooks), r.ns, failing, phase), LAMBDA rest :
              [ok |-> rest.ok, ns |-> rest.ns, log |-> <<Use(phase, ns, "")>> \o rest.log]))

\* _render_args(ctx, args): the templates are rendered in order
RECURSIVE _render_args(_, _)
_render_args(ns, args) ==
    IF args = <<>> THEN [raised |-> "", ns |-> ns, log |-> <<>>]
    ELSE Let(Context_render(ns, args[1]), LAMBDA r :
         IF r.raised # "" THEN [raised |-> r.raised, ns |-> r.ns,
                                log |-> <<Use("args", ns, r.raised)>>]
         ELSE Let(_render_args(r.ns, Tail(args)), LAMBDA rest :
              [raised |-> rest.raised, ns |-> rest.ns,
               log |-> <<Use("args", ns, "")>> \o rest.log]))

\* one pass of the loop of run: the args are rendered, the runner is
\* called, each check_eval check is given ctx.namespace
RECURSIVE _iterations_ctx(_, _, _)
_iterations_ctx(leaf, index, ns) ==
    IF index > Max(leaf.repeat, 1) THEN [raised |-> "", ns |-> ns, log |-> <<>>]
    ELSE Let(_render_args(ns, leaf.args), LAMBDA a :
         IF a.raised # "" THEN a
         ELSE Let(_iterations_ctx(leaf, index + 1, a.ns), LAMBDA rest :
              [raised |-> rest.raised, ns |-> rest.ns,
               log |-> a.log \o [n \in DOMAIN leaf.checks |-> Use("check", a.ns, "")]
                             \o rest.log]))

\* _TestRuntime.run(): ctx = Context() is new; .raised is the exception that
\* leaves run, .failed the phase whose failure the result reports
_TestRuntime_run_ctx(leaf, failing) ==
    Let(_run_hooks_ctx(leaf.setup, <<>>, failing, "setup"), LAMBDA su :
        IF ~su.ok THEN [leaf |-> leaf.name, raised |-> "", failed |-> "setup", log |-> su.log]
        ELSE IF ~_limits(leaf.case).ok
        THEN [leaf |-> leaf.name, raised |-> _limits(leaf.case).err, failed |-> "",
              log |-> su.log]
        ELSE Let(_iterations_ctx(leaf, 1, su.ns), LAMBDA its :
             IF its.raised # ""
             THEN [leaf |-> leaf.name, raised |-> its.raised, failed |-> "",
                   log |-> su.log \o its.log]
             ELSE Let(_run_hooks_ctx(leaf.teardown, its.ns, failing, "teardown"), LAMBDA td :
                  [leaf |-> leaf.name, raised |-> "",
                   failed |-> IF td.ok THEN "" ELSE "teardown",
                   log |-> su.log \o its.log \o td.log])))

----------------------------------------------------------------------------
(* The raw mappings the pipeline is run on *)

\* number of test nodes of a document
MaxNodes == 3

RawFilter(kind) == PyDict(<<K(kind, PyDict(<<>>))>>)
RawCheck(kind, payload) == PyDict(<<K(kind, payload)>>)
RawStep(kind, text) == PyDict(<<K(kind, PyStr(text))>>)
RawStrs(ss) == PyList([n \in DOMAIN ss |-> PyStr(ss[n])])

\* what one test node declares, by family of fields
ListProfiles ==
    { <<>>,
      << K("filters", PyList(<<RawFilter("upper")>>)),
         K("setup", PyList(<<RawStep("run", "mk")>>)),
         K("teardown", PyList(<<RawStep("run", "rm")>>)),
         K("stdout", PyList(<<RawCheck("contains", PyStr("a"))>>)),
         K("stderr", PyList(<<RawFilter("trim")>>)),
         K("args", RawStrs(<<"-a">>)) >>,
      << K("filters", PyList(<<RawFilter("trim"), RawFilter("upper")>>)),
         K("setup", PyList(<<RawStep("eval", "x = 1"), RawStep("run", "mk")>>)),
         K("teardown", PyList(<<RawStep("eval", "y = 2"), RawStep("run", "rm")>>)),
         K("stdout", PyList(<<RawFilter("lower"), RawCheck("equals", PyStr("b"))>>)),
         K("stderr", PyList(<<RawCheck("equals", PyStr("e")), RawFilter("trim")>>)),
         K("args", RawStrs(<<"-b", "-a">>)) >> }

ScalarProfiles ==
    { <<>>,
      << K("stdin", PyStr("")), K("exit", PyInt(0)) >>,
      << K("stdin", PyStr("in")), K("exit", PyInt(3)) >> }

RepeatProfiles ==
    { <<>>, << K("repeat", PyInt(0)) >>, << K("repeat", PyInt(2)) >>,
      << K("repeat", PyInt(3)) >> }

LimitProfiles ==
    { <<>>,
      << K("timeout", PyInt(5)), K("ulimit", PyDict(<<K("cpu", PyInt(5))>>)) >>,
      << K("ulimit", PyDict(<<K("mem", PyInt(1024))>>)) >> }

FileProfiles ==
    { <<>>,
      << K("files", PyDict(<< K("a.txt", PyList(<<RawFilter("trim"),
                                                  RawCheck("contains", PyStr("x"))>>)) >>)) >>,
      << K("files", PyDict(<<
            K("a.txt", PyDict(<<K("ops", PyList(<<RawCheck("equals", PyStr("y"))>>))>>)),
            K("b.txt", PyDict(<<K("filters", PyList(<<RawFilter("lower")>>)),
                                K("checks", PyList(<<RawCheck("contains", PyStr("z"))>>))>>))
            >>)) >>,
      << K("files", PyDict(<< K("b.txt", PyList(<<>>)) >>)) >> }

CheckProfiles ==
    { <<>>,
      << K("stdout", PyList(<<RawCheck("equals", PyDict(<<K("value", PyInt(42))>>))>>)) >>,
      << K("stdout", PyList(<<RawCheck("contains",
                PyDict(<<K("value", PyInt(7)), K("explaination", PyStr("why"))>>))>>)),
         K("stderr", PyList(<<RawCheck("equals", PyInt(5)), RawCheck("lt", PyInt(10))>>)) >>,
      << K("stdout", PyList(<<RawCheck("not_equals", PyDict(<<K("value", PyInt(1))>>)),
                              RawCheck("bogus", PyInt(1)),
                              RawCheck("equals", PyDict(<<K("value", PyInt(2))>>))>>)) >>,
      << K("stdout", PyList(<<RawCheck("equals", PyDict(<<K("value", PyInt(42))>>))>>)),
         K("repeat", PyStr("x")) >> }

\* a test node: its name, what it declares, its children
RawTest(profile, children) ==
    PyDict(<<K("name", PyStr("t"))>> \o profile
           \o (IF children = <<>> THEN <<>> ELSE <<K("tests", PyList(children))>>))

\* the ordered forests of exactly n test nodes drawing from profiles P
RECURSIVE Forests(_, _)
Forests(n, P) ==
    IF n = 0 THEN {<<>>}
    ELSE UNION { { <<RawTest(p, sub)>> \o rest :
                     p \in P, sub \in Forests(k - 1, P), rest \in Forests(n - k, P) }
                 : k \in 1..n }

ForestsUpTo(max, P) == UNION {Forests(n, P) : n \in 1..max}

\* the documents about inheritance along a chain of ancestors hold up to
\* MaxNodes tests; those about a single node or a parent and its child hold
\* one test less
Deep == MaxNodes
Shallow == MaxNodes - 1

RawDoc(root, execKids, tests) ==
    PyDict(<<K("version", PyInt(1)),
             K("exec", PyDict(<<K("cmd", PyStr("prog"))>> \o execKids))>>
           \o root \o <<K("tests", PyList(tests))>>)

RawDocs ==
    { RawDoc(r, e, f) :
        r \in { <<>>, <<K("filters", PyList(<<RawFilter("lower")>>))>> },
        e \in { <<K("args", RawStrs(<<"--root">>))>> },
        f \in ForestsUpTo(Deep, ListProfiles) }
    \cup
    { RawDoc(<<>>, e, f) :
        e \in { <<>>, <<K("stdin", RawStrs(<<"root">>))>> },
        f \in ForestsUpTo(Deep, ScalarProfiles) }
    \cup
    { RawDoc(<<>>, <<>>, f) : f \in ForestsUpTo(Deep, RepeatProfiles) }
    \cup
    { RawDoc(r, <<>>, f) :
        r \in { <<>>, <<K("timeout", PyInt(2)), K("ulimit", PyDict(<<K("cpu", PyInt(10))>>))>> },
        f \in ForestsUpTo(Shallow, LimitProfiles) }
    \cup
    { RawDoc(<<>>, <<>>, f) : f \in ForestsUpTo(Shallow, FileProfiles) }
    \cup
    { RawDoc(<<>>, <<>>, f) : f \in ForestsUpTo(Shallow, CheckProfiles) }

----------------------------------------------------------------------------
(* The documents a suite is compiled from and run on *)

\* what one test of a suite document declares: hooks of both kinds, and
\* stream ops
HookProfiles ==
    { << K("name", PyStr("a")),
         K("setup", PyList(<<RawStep("eval", "x = 1")>>)) >>,
      << K("name", PyStr("b")), K("description", PyStr("d")),
         K("setup", PyList(<<RawStep("run", "mk")>>)),
         K("teardown", PyList(<<RawStep("run", "rm")>>)),
         K("stdout", PyList(<<RawFilter("upper"), RawCheck("contains", PyStr("A"))>>)),
         K("exit", PyInt(0)) >> }
OpsProfiles ==
    { << K("name", PyStr("c")),
         K("filters", PyList(<<RawFilter("lower")>>)),
         K("stdout", PyList(<<PyDict(<<K("map_eval", PyStr("value.upper()"))>>),
                              RawCheck("equals", PyStr("HELLO"))>>)) >>,
      << K("name", PyStr("e")),
         K("filters", PyList(<<RawFilter("lower")>>)),
         K("stderr", PyList(<<PyDict(<<K("sub", PyDict(<<K("regex", PyStr("a")),
                                                         K("repl", PyStr("b"))>>))>>),
                              RawCheck("lt", PyInt(3))>>)) >> }

SuiteTest(profile, children) ==
    PyDict(profile \o (IF children = <<>> THEN <<>> ELSE <<K("tests", PyList(children))>>))

\* the ordered forests of exactly n tests drawing from profiles P
RECURSIVE SuiteForests(_, _)
SuiteForests(n, P) ==
    IF n = 0 THEN {<<>>}
    ELSE UNION { { <<SuiteTest(p, sub)>> \o rest :
                     p \in P, sub \in SuiteForests(k - 1, P),
                     rest \in SuiteForests(n - k, P) }
                 : k \in 1..n }

SuiteDocs ==
    { RawDoc(<<K("filters", PyList(<<RawFilter("trim")>>))>>, <<>>, f) :
        f \in UNION {SuiteForests(n, HookProfiles) : n \in 1..Deep}
               \cup UNION {SuiteForests(n, HookProfiles \cup OpsProfiles) : n \in 1..Shallow} }

\* the program of exec.cmd is on the search path, or nowhere
SuiteFileSystems == { [cwd |-> {}, path |-> {"prog"}], [cwd |-> {}, path |-> {}] }

\* documents with other commands: none, an empty one, a list, a forbidden
\* name; with the file systems where rm is on the search path and where the
\* working directory holds an executable file of that name too
CmdDocs ==
    { PyDict(<<K("version", PyInt(1)), K("exec", PyDict(<<K("cmd", c)>>)),
               K("tests", PyList(f))>>) :
        c \in { PyStr(""), PyList(<<>>), PyList(<<PyStr(""), PyStr("-v")>>),
                PyList(<<PyStr("prog"), PyStr("-v")>>), PyStr("rm"), PyStr(Located("prog")) },
        f \in SuiteForests(1, HookProfiles) }
CmdFileSystems ==
    { [cwd |-> {}, path |-> {"rm", "prog"}], [cwd |-> {"rm"}, path |-> {"rm", "prog"}] }

\* number of calls of run on a compiled suite
MaxRuns == 2

NoOutcome == [call |-> "", node |-> <<>>, raised |-> "", results |-> <<>>, effects |-> <<>>]
NoFileSystem == [cwd |-> {}, path |-> {}]

\* the variables of the stages a run does not go through
IdlePipeline == raw = PyNone /\ spec = PyNone /\ merged = PyNone /\ nextOid = 1
IdleSuite == disk = NoFileSystem /\ suite = <<>> /\ outcome = NoOutcome /\ runs = 0

----------------------------------------------------------------------------
(* The streams evaluate is applied to *)

\* length of a declared op list
MaxOps == 3

RawSub(regex, repl) ==
    PyDict(<<K("sub", PyDict(<<K("regex", PyStr(regex)), K("repl", PyStr(repl))>>))>>)

RawOps ==
    { RawFilter("upper"), RawFilter("lower"), RawFilter("trim"), RawSub("a", "b"),
      PyDict(<<K("map_eval", PyStr("value.upper()"))>>),
      RawCheck("contains", PyStr("a")), RawCheck("equals", PyStr("A")),
      RawCheck("not_contains", PyStr("B")), RawCheck("gt", PyInt(5)) }

RECURSIVE SeqsOf(_, _)
SeqsOf(S, n) == IF n = 0 THEN {<<>>} ELSE { <<x>> \o q : x \in S, q \in SeqsOf(S, n - 1) }

\* the leaf's merged filters and the declared ops as the normaliser gives
\* them, and the text captured
Streams ==
    { [filters |-> parse_stream_ops(PyList(f)).val.kids,
       ops |-> parse_stream_ops(PyList(o)).val.kids,
       value |-> v, name |-> "stdout", test_id |-> <<1, 2>>] :
        f \in { <<>>, <<RawFilter("trim"), RawFilter("lower")>> },
        o \in UNION { SeqsOf(RawOps, n) : n \in 0..MaxOps },
        v \in { <<" ", "a", "B", " ">>, <<"A">>, <<"7", "\n">> } }

NoStream == [filters |-> <<>>, ops |-> <<>>, value |-> <<>>, name |-> "", test_id |-> <<>>]
IdleStream == stream = NoStream /\ compiled = <<>> /\ evaluation = <<>> /\ collected = <<>>

----------------------------------------------------------------------------
(* The programs an Executable is built for and run on *)

\* number of processes the program starts that outlive a kill of the program
MaxGrand == 2
\* number of chunks the program writes
MaxOut == 1

\* the names an Executable is asked for
ExecNames == BareNames \cup {Located("prog"), Located("rm")}

\* executable files in the working directory, names found by the search path
ExecFileSystems == [cwd : SUBSET {"rm", "prog"}, path : SUBSET {"rm", "prog"}]

NoExecutable == [asked |-> "", filename |-> ""]
\* child: "none" | "running" | "zombie" | "reaped"; returncode as Popen holds
\* it (<<>> for None); status: what the child ended with; grand: processes
\* started by the child that hold its output pipes; detached: those that
\* closed them; out: chunks written to the pipes; timeout: run was given
\* one; expired: the state of the child when the timeout elapsed ("" before);
\* hook: what the hook given to run does ("none" when run is given none);
\* hooked: the keyword arguments of each call of the hook, in order
NoProcess == [child |-> "none", returncode |-> <<>>, status |-> 0, grand |-> 0,
              detached |-> 0, out |-> 0, timeout |-> FALSE, expired |-> "",
              hook |-> "none", hooked |-> <<>>]
IdleExec == exe = NoExecutable /\ proc = NoProcess /\ result = <<>>

\* largest part of an identifier, number of parts, number of TestId objects
MaxPart == 3
MaxDepth == 3
MaxIds == 3

\* what a TestId is built from
IdValues ==
    { PyNone, PyInt(0), PyInt(2), PyInt(-1), Tuple(<<>>), Tuple(<<1, 2>>), Tuple(<<2, 0>>),
      PyList(<<PyInt(1), PyNone>>),
      IdStr(<<"1", ".", "2">>), IdStr(<<"0">>), IdStr(<<"1", ".", "0">>), IdStr(<<>>),
      IdStr(<<"1", ".">>), IdStr(<<"a">>), IdStr(<<"0", "3">>) }

\* the steps and starts given to next, down and +
IdSteps == { PyInt(-1), PyInt(0), PyInt(1), PyInt(2), PyStr("1") }

\* the checks parse_check is applied to: for each kind the text or number
\* form and the object form, the latter with no explanatory text, with one
\* under each spelling, with two spellings, and with one that is no text
CheckKinds == CStringKeys \cup CNumberKeys \cup {"match", "check_eval", "capture"}
Spellings == {"explain", "explanation", "explaination"}
ShortForm(kind) ==
    CASE kind \in CStringKeys -> PyStr("x")
      [] kind \in CNumberKeys -> PyInt(1)
      [] kind = "check_eval" -> PyStr("value")
      [] OTHER -> PyStr("m/a/i")
ObjectForm(kind) ==
    CASE kind \in CStringKeys -> <<K("value", PyStr("x"))>>
      [] kind \in CNumberKeys -> <<K("value", PyInt(1))>>
      [] kind = "check_eval" -> <<K("expr", PyStr("value"))>>
      [] kind = "match" -> <<K("regex", PyStr("^ok$"))>>
      [] OTHER -> << K("regex", PyStr("m/a/i")),
                     K("tests", PyList(<<RawCheck("contains",
                            PyDict(<<K("value", PyStr("x")),
                                     K("explanation", PyStr("inner"))>>))>>)) >>
ExplainProfiles ==
    { <<>>, <<K("explanation", PyStr("A")), K("explaination", PyStr("B"))>>,
      <<K("explanation", PyInt(1))>> }
      \cup { <<K(sp, PyStr("E"))>> : sp \in Spellings }
RawChecks ==
    { RawCheck(kind, ShortForm(kind)) : kind \in CheckKinds }
      \cup { RawCheck(kind, PyDict(ObjectForm(kind) \o e))
               : kind \in CheckKinds, e \in ExplainProfiles }

\* number of runs of leaves
MaxLeafRuns == 3

\* the leaves that are run: a TestCase after normalize_spec and merge_spec
\* has the fields of the class, so no ulimit
Eval(value) == [kind |-> "eval", value |-> value]
Run(command) == [kind |-> "run", value |-> command]
Leaf(name, setup, args, checks, teardown, repeat) ==
    [name |-> name, case |-> PyModel("TestCase", "", <<K("name", PyStr(name))>>),
     setup |-> setup, args |-> args, checks |-> checks, teardown |-> teardown,
     repeat |-> repeat]
Leaves ==
    { Leaf("sets", << Eval(<<Nm("x"), Op("="), Num(1)>>),
                      Eval(<<Nm("y"), Op("="), Nm("x"), Op("+"), Num(1)>>) >>,
           << <<M(<<Nm("x"), Op("++")>>)>> >>, << <<Nm("x")>> >>,
           << Eval(<<Nm("z"), Op("="), Nm("x")>>) >>, 2),
      Leaf("reads", << Eval(<<Nm("y"), Op("="), Nm("x")>>) >>, <<>>, <<>>, <<>>, 1),
      Leaf("commands", << Run("mk"), Eval(<<Nm("x"), Op("="), Num(2)>>) >>,
           << <<M(<<Nm("x")>>)>> >>, <<>>, << Run("rm") >>, 1),
      Leaf("plain", <<>>, << <<Lit("-v")>> >>, << <<Nm("value")>> >>, <<>>, 0) }
Commands == {"mk", "rm"}

\* largest value of a variable of a Context
MaxValue == 4

\* the expressions, statements and templates given to a Context
CtxExpressions ==
    { <<Nm("i")>>, <<Nm("i"), Op("++")>>, <<Op("++"), Nm("i")>>,
      <<Nm("i"), Op("++"), Op("+"), Op("++"), Nm("i")>>,
      <<Nm("i"), Op("++"), Op("//"), Num(2)>>,
      <<Nm("x"), Op("++")>>, <<Nm("missing")>>, <<>>, <<Num(1), Op("+")>>,
      <<Num(1), Op("//"), Num(0)>>, <<Nm("i"), Op("++"), Nm("x")>> }
CtxStatements ==
    { <<Nm("i"), Op("="), Num(1)>>, <<Nm("x"), Op("="), Nm("i"), Op("+"), Num(1)>>,
      <<Nm("i"), Op("=")>>, <<Nm("x"), Op("="), Nm("missing")>>,
      <<Nm("i"), Op("="), Nm("i"), Op("//"), Num(0)>>, <<>> }
CtxTemplates ==
    { <<M(<<Nm("i"), Op("++")>>), Lit(" "), M(<<Nm("i")>>), Lit(" "),
        M(<<Op("++"), Nm("i")>>)>>,
      <<M(<<Nm("missing")>>)>>,
      <<Lit("a"), M(<<Nm("i"), Op(":"), Nm("d")>>)>>,
      <<M(<<Nm("i"), Op("++"), Op(":"), Nm("zz")>>)>>,
      <<M(<<Nm("i"), Op("++")>>), M(<<Num(1), Op("//"), Num(0)>>)>>,
      <<M(<<>>)>>, <<Lit("a")>> }
CtxInitials == { <<>>, [n \in {"i"} |-> 1] }

\* number of callbacks called on a tracker
MaxCalls == 6

\* what a tracker starts from and is reset to, and the steps and starts
TrackStarts == { PyNone, IdStr(<<"1", ".", "2">>) }
TrackResets == { PyInt(2), IdStr(<<"0">>) }
TrackSteps == { PyInt(1), PyInt(2) }
TrackGroupStarts == { PyInt(0), PyInt(1) }

\* a call on TestId objects: the receiver and the object returned are
\* positions in tids.objs (0 for none)
NoCall == [op |-> "", recv |-> 0, arg |-> PyNone, ret |-> 0, raised |-> ""]
NoIds == [objs |-> <<>>, call |-> NoCall]
NoTrack == [current |-> <<>>, last |-> <<>>, stack |-> <<>>, payloads |-> <<>>]
NoCtx == <<>>
IdleAux == tids = NoIds /\ track = NoTrack /\ context = NoCtx

----------------------------------------------------------------------------
(* The pipeline: raw mapping -> normalize_spec -> merge_spec *)

Init ==
    /\ pc = "raw"
    /\ raw \in RawDocs
    /\ spec = PyNone
    /\ merged = PyNone
    /\ nextOid = 1
    /\ IdleSuite
    /\ IdleStream
    /\ IdleExec
    /\ IdleAux

\* spec = normalize_spec(raw)
Normalize ==
    /\ pc = "raw"
    /\ \E r \in {normalize_spec(raw)} :
       \E n \in {Number(r.val, nextOid)} :
          /\ raw' = r.raw
          /\ pc' = IF r.ok THEN "normalized" ELSE "invalid"
          /\ spec' = n.obj
          /\ nextOid' = n.next
    /\ UNCHANGED <<merged, suiteVars, streamVars, execVars, auxVars>>

\* merged = merge_spec(spec)
Merge ==
    /\ pc = "normalized"
    /\ \E r \in {merge_spec(spec, nextOid)} :
          /\ pc' = IF r.ok THEN "merged" ELSE "merge_error"
          /\ merged' = IF r.ok THEN r.obj ELSE PyNone
          /\ spec' = SeenAfter(spec, r.obj)
          /\ nextOid' = r.next
    /\ UNCHANGED <<raw, suiteVars, streamVars, execVars, auxVars>>

Next == Normalize \/ Merge

Spec == Init /\ [][Next]_vars

----------------------------------------------------------------------------
(* Compiling and running a suite: normalize_spec -> merge_spec -> build_suite,
   then TestSuite.run() and TestNode.run() in any order *)

InitSuite ==
    /\ pc = "raw"
    /\ \/ raw \in SuiteDocs /\ disk \in SuiteFileSystems
       \/ raw \in CmdDocs /\ disk \in CmdFileSystems
    /\ spec = PyNone
    /\ merged = PyNone
    /\ nextOid = 1
    /\ suite = <<>>
    /\ outcome = NoOutcome
    /\ runs = 0
    /\ IdleStream
    /\ IdleExec
    /\ IdleAux

\* suite = build_suite(merged)
BuildSuite ==
    /\ pc = "merged"
    /\ \E r \in {build_suite(merged, disk)} :
          /\ pc' = IF r.ok THEN "built" ELSE "build_error"
          /\ suite' = r.val
          /\ outcome' = [NoOutcome EXCEPT !.call = "build_suite", !.raised = r.err]
          /\ \E cmd \in {_split_command(Get(Get(merged, "exec"), "cmd"))} :
                exe' = [asked |-> IF cmd.ok THEN cmd.val.s ELSE "",
                        filename |-> r.executable.s]
    /\ UNCHANGED <<raw, spec, merged, nextOid, disk, runs, streamVars, proc, result, auxVars>>

\* the nodes of a compiled forest, and its leaf runtimes
RECURSIVE Nodes(_)
Nodes(nodes) ==
    UNION { {nodes[n]} \cup Nodes(nodes[n].tests) : n \in DOMAIN nodes }
Runtimes(nodes) == { nd.runtime[1] : nd \in {x \in Nodes(nodes) : x.runtime # <<>>} }

\* the answers of the outside world to one call (see _run_hooks)
Hooks(nodes) ==
    UNION { { Get(Get(rt.case, f).kids[n], "value").s : n \in DOMAIN Get(rt.case, f).kids }
            : rt \in Runtimes(nodes), f \in {"setup", "teardown"} }
Envs(nodes) ==
    [ failing : SUBSET Hooks(nodes),
      raises : BOOLEAN,
      exit_status : {1},
      stdout : {<<"a", "\n">>},
      stderr : {<<>>},
      missing : {{}},
      content : {<<>>} ]

\* outcome = suite.run()
RunSuite ==
    /\ pc = "built"
    /\ runs < MaxRuns
    /\ \E env \in Envs(suite) :
       \E r \in {TestSuite_run(suite, env)} :
          outcome' = [call |-> "TestSuite.run", node |-> <<>>, raised |-> r.raised,
                      results |-> r.results, effects |-> r.effects]
    /\ runs' = runs + 1
    /\ UNCHANGED <<pc, raw, spec, merged, nextOid, disk, suite, streamVars, execVars, auxVars>>

\* outcome = node.run() for one node of the suite
RunNode ==
    /\ pc = "built"
    /\ runs < MaxRuns
    /\ \E node \in Nodes(suite) :
       \E env \in Envs(<<node>>) :
       \E r \in {TestNode_run(node, env)} :
          outcome' = [call |-> "TestNode.run", node |-> node.test_id, raised |-> r.raised,
                      results |-> r.results, effects |-> r.effects]
    /\ runs' = runs + 1
    /\ UNCHANGED <<pc, raw, spec, merged, nextOid, disk, suite, streamVars, execVars, auxVars>>

NextSuite == Normalize \/ Merge \/ BuildSuite \/ RunSuite \/ RunNode

SpecSuite == InitSuite /\ [][NextSuite]_vars

----------------------------------------------------------------------------
(* Evaluating one stream: the pipelines of _TestRuntime.__init__, then
   _StreamRuntime.evaluate and Matchers.evaluate *)

InitStream ==
    /\ pc = "stream"
    /\ IdlePipeline
    /\ IdleSuite
    /\ stream \in Streams
    /\ compiled = <<>>
    /\ evaluation = <<>>
    /\ collected = <<>>
    /\ IdleExec
    /\ IdleAux

\* self.filters = [_instantiate_filter(f) ...]; _StreamRuntime(_build_pipeline(ops))
Compile ==
    /\ pc = "stream"
    /\ \E fi \in {Collect([n \in DOMAIN stream.filters |->
                                _instantiate_filter(stream.filters[n])])} :
       \E st \in {_build_pipeline(stream.ops)} :
          /\ pc' = IF fi.ok /\ st.ok THEN "compiled" ELSE "compile_error"
          /\ compiled' = IF fi.ok /\ st.ok
                         THEN <<[filters |-> fi.val, steps |-> st.val]>> ELSE <<>>
    /\ UNCHANGED <<raw, spec, merged, nextOid, suiteVars, stream, evaluation, collected, execVars, auxVars>>

\* evaluation = runtime.evaluate(text, stream_name=, test_id=, global_filters=self.filters)
Evaluate ==
    /\ pc = "compiled"
    /\ evaluation = <<>>
    /\ evaluation' = <<evaluate(compiled[1].steps, stream.value, stream.name,
                                stream.test_id, compiled[1].filters)>>
    /\ UNCHANGED <<pc, raw, spec, merged, nextOid, suiteVars, stream, compiled, collected, execVars, auxVars>>

\* the matchers of the steps, as a Matchers collection
MatchersOf(steps) ==
    LET ms == SelectSeq(steps, LAMBDA st : st.cls = "_MatcherStep")
    IN [n \in DOMAIN ms |-> Get(ms[n], "matcher")]

\* collected = Matchers(matchers).evaluate(text, on=, test=)
EvaluateMatchers ==
    /\ pc = "compiled"
    /\ collected = <<>>
    /\ collected' = <<Matchers_evaluate(MatchersOf(compiled[1].steps), stream.value,
                                        stream.name, TestId_str(stream.test_id))>>
    /\ UNCHANGED <<pc, raw, spec, merged, nextOid, suiteVars, stream, compiled, evaluation, execVars, auxVars>>

NextStream == Compile \/ Evaluate \/ EvaluateMatchers

SpecStream == InitStream /\ [][NextStream]_vars

----------------------------------------------------------------------------
(* Building an Executable and running it once: Executable.__init__ and
   Executable.run, with the program and the processes it starts *)

SIGKILL == 9

Outputs(exit_status, stdout, stderr) ==
    [exit_status |-> exit_status, stdout |-> stdout, stderr |-> stderr]

InitExec ==
    /\ pc = "new"
    /\ IdlePipeline
    /\ suite = <<>> /\ outcome = NoOutcome /\ runs = 0
    /\ IdleStream
    /\ IdleAux
    /\ disk \in ExecFileSystems
    /\ exe \in { [asked |-> n, filename |-> ""] : n \in ExecNames }
    /\ proc = NoProcess
    /\ result = <<>>

\* Executable(filename)
NewExecutable ==
    /\ pc = "new"
    /\ \E r \in {Executable_init(exe.asked, disk)} :
          /\ pc' = IF r.ok THEN "ready" ELSE "invalid"
          /\ exe' = [exe EXCEPT !.filename = IF r.ok THEN r.val.s ELSE ""]
          /\ result' = IF r.ok THEN <<>> ELSE <<Raise(r.err)>>
    /\ UNCHANGED <<raw, spec, merged, nextOid, suiteVars, streamVars, proc, auxVars>>

\* run(..., timeout=) up to proc = subprocess.Popen(...), then
\* proc.communicate(input=, timeout=) begins
Popen ==
    /\ pc = "ready"
    /\ pc' = "communicate"
    /\ \E t \in BOOLEAN, h \in {"none", "returns", "raises"} :
          proc' = [NoProcess EXCEPT !.child = "running", !.timeout = t, !.hook = h]
    /\ UNCHANGED <<raw, spec, merged, nextOid, suiteVars, streamVars, exe, result, auxVars>>

\* what the program does while it runs: it starts a process, which inherits
\* its output pipes; it writes to its output; it ends by itself
Program ==
    /\ proc.child = "running"
    /\ \/ /\ proc.grand + proc.detached < MaxGrand
          /\ proc' = [proc EXCEPT !.grand = @ + 1]
       \/ /\ proc.out < MaxOut
          /\ proc' = [proc EXCEPT !.out = @ + 1]
       \/ \E st \in {0, 1} : proc' = [proc EXCEPT !.child = "zombie", !.status = st]
    /\ UNCHANGED <<pc, raw, spec, merged, nextOid, suiteVars, streamVars, exe, result, auxVars>>

\* what a process started by the program does: it writes to the pipes it
\* holds; it closes them and goes on; it ends
Grandchild ==
    /\ \/ /\ proc.grand > 0
          /\ proc.out < MaxOut
          /\ proc' = [proc EXCEPT !.out = @ + 1]
       \/ /\ proc.grand > 0
          /\ proc' = [proc EXCEPT !.grand = @ - 1, !.detached = @ + 1]
       \/ /\ proc.grand > 0
          /\ proc' = [proc EXCEPT !.grand = @ - 1]
       \/ /\ proc.detached > 0
          /\ proc' = [proc EXCEPT !.detached = @ - 1]
    /\ UNCHANGED <<pc, raw, spec, merged, nextOid, suiteVars, streamVars, exe, result, auxVars>>

\* communicate returns once the pipes are at end of file and the child has
\* ended: it reaps the child
CommunicateReturns ==
    /\ pc = "communicate"
    /\ proc.child = "zombie"
    /\ proc.grand = 0
    /\ pc' = "decode"
    /\ proc' = [proc EXCEPT !.child = "reaped", !.returncode = <<proc.status>>]
    /\ UNCHANGED <<raw, spec, merged, nextOid, suiteVars, streamVars, exe, result, auxVars>>

\* `except subprocess.TimeoutExpired:` the timeout elapses before
\* communicate has returned
TimeoutExpired ==
    /\ pc = "communicate"
    /\ proc.timeout
    /\ pc' = "timeout"
    /\ proc' = [proc EXCEPT !.expired = proc.child]
    /\ UNCHANGED <<raw, spec, merged, nextOid, suiteVars, streamVars, exe, result, auxVars>>

\* proc.kill(): Popen.send_signal polls first, which reaps a child that has
\* ended; else SIGKILL goes to the child, and to the child only
Kill ==
    /\ pc = "timeout"
    /\ pc' = "killed"
    /\ proc' = IF proc.child = "running"
               THEN [proc EXCEPT !.child = "zombie", !.status = -SIGKILL]
               ELSE [proc EXCEPT !.child = "reaped", !.returncode = <<proc.status>>]
    /\ UNCHANGED <<raw, spec, merged, nextOid, suiteVars, streamVars, exe, result, auxVars>>

\* proc.wait()
Wait ==
    /\ pc = "killed"
    /\ pc' = "waited"
    /\ proc' = [proc EXCEPT !.child = "reaped", !.returncode = <<proc.status>>]
    /\ UNCHANGED <<raw, spec, merged, nextOid, suiteVars, streamVars, exe, result, auxVars>>

\* stdout_bytes, stderr_bytes = proc.communicate(timeout=1): returns at end
\* of file of the pipes, raises TimeoutExpired when a second elapses first
CommunicateAgain ==
    /\ pc = "waited"
    /\ \/ /\ proc.grand = 0
          /\ pc' = "decode"
          /\ result' = result
       \/ /\ proc.grand > 0
          /\ pc' = "raised"
          /\ result' = <<Raise("TimeoutExpired")>>
    /\ UNCHANGED <<raw, spec, merged, nextOid, suiteVars, streamVars, exe, proc, auxVars>>

\* `except Exception:` (stdin.encode or communicate raised): proc.kill(),
\* proc.wait(), raise
CommunicateRaises ==
    /\ pc = "communicate"
    /\ pc' = "raised"
    /\ proc' = [proc EXCEPT !.child = "reaped",
                            !.returncode = <<IF proc.child = "running" THEN -SIGKILL
                                             ELSE proc.status>>,
                            !.status = IF proc.child = "running" THEN -SIGKILL ELSE @]
    /\ result' = <<Raise("Exception")>>
    /\ UNCHANGED <<raw, spec, merged, nextOid, suiteVars, streamVars, exe, auxVars>>

\* the end of run: the streams are decoded, `if hook and callable(hook):
\* hook(cmd=, stdin=, stdout=, stderr=, exit_status=)`, which may raise, then
\* `return Outputs(proc.returncode, stdout_text, stderr_text)`
HookAndReturn ==
    /\ pc = "decode"
    /\ pc' = IF proc.hook = "raises" THEN "raised" ELSE "returned"
    /\ proc' = [proc EXCEPT !.hooked =
                    IF proc.hook = "none" THEN @
                    ELSE Append(@, [cmd |-> <<exe.filename>>, stdin |-> <<>>,
                                    stdout |-> proc.out, stderr |-> 0,
                                    exit_status |-> proc.returncode[1]])]
    /\ result' = IF proc.hook = "raises" THEN <<Raise("HookError")>>
                 ELSE <<Ok(Outputs(proc.returncode[1], proc.out, 0))>>
    /\ UNCHANGED <<raw, spec, merged, nextOid, suiteVars, streamVars, exe, auxVars>>

NextExec ==
    \/ NewExecutable \/ Popen
    \/ Program \/ Grandchild
    \/ CommunicateReturns \/ TimeoutExpired \/ Kill \/ Wait
    \/ CommunicateAgain \/ CommunicateRaises \/ HookAndReturn

SpecExec == InitExec /\ [][NextExec]_vars

----------------------------------------------------------------------------
(* Making TestId objects and calling their methods: each object keeps its
   parts and the call that made it *)

InitIds ==
    /\ pc = "ids"
    /\ IdlePipeline
    /\ IdleSuite
    /\ IdleStream
    /\ IdleExec
    /\ tids = NoIds
    /\ track = NoTrack
    /\ context = NoCtx

\* the state after a call op(arg) on the receiver recv that gave r: a new
\* object when it returned one
Called(op, recv, arg, r) ==
    [objs |-> IF r.ok THEN Append(tids.objs, [parts |-> r.val, op |-> op, recv |-> recv,
                                               arg |-> arg])
              ELSE tids.objs,
     call |-> [op |-> op, recv |-> recv, arg |-> arg,
               ret |-> IF r.ok THEN Len(tids.objs) + 1 ELSE 0, raised |-> r.err]]

\* TestId(value), value possibly a TestId made before
NewTestId ==
    /\ Len(tids.objs) < MaxIds
    /\ \E value \in IdValues \cup { PyModel("TestId", "", Tuple(tids.objs[t].parts).kids)
                                     : t \in DOMAIN tids.objs } :
          tids' = Called("init", 0, value, TestId_init(value))
    /\ UNCHANGED <<pc, raw, spec, merged, nextOid, suiteVars, streamVars, execVars,
                   track, context>>

\* t.next(step) and t + step
CallNext ==
    /\ Len(tids.objs) < MaxIds
    /\ \E t \in DOMAIN tids.objs, step \in IdSteps, op \in {"next", "add"} :
          /\ step.cls = "int" => tids.objs[t].parts[Len(tids.objs[t].parts)] + step.i <= MaxPart
          /\ tids' = Called(op, t, step, TestId_next(tids.objs[t].parts, step))
    /\ UNCHANGED <<pc, raw, spec, merged, nextOid, suiteVars, streamVars, execVars,
                   track, context>>

\* t.down(start)
CallDown ==
    /\ Len(tids.objs) < MaxIds
    /\ \E t \in DOMAIN tids.objs, start \in IdSteps :
          /\ Len(tids.objs[t].parts) < MaxDepth
          /\ tids' = Called("down", t, start, TestId_down(tids.objs[t].parts, start))
    /\ UNCHANGED <<pc, raw, spec, merged, nextOid, suiteVars, streamVars, execVars,
                   track, context>>

\* t.up(): the receiver itself when it has one part, else a new object
CallUp ==
    /\ Len(tids.objs) < MaxIds
    /\ \E t \in DOMAIN tids.objs :
          tids' = IF Len(tids.objs[t].parts) = 1
                  THEN [tids EXCEPT !.call = [op |-> "up", recv |-> t, arg |-> PyNone,
                                              ret |-> t, raised |-> ""]]
                  ELSE Called("up", t, PyNone, TestId_up(tids.objs[t].parts))
    /\ UNCHANGED <<pc, raw, spec, merged, nextOid, suiteVars, streamVars, execVars,
                   track, context>>

NextIds == NewTestId \/ CallNext \/ CallDown \/ CallUp

SpecIds == InitIds /\ [][NextIds]_vars

----------------------------------------------------------------------------
(* Calling the callbacks of one TrackId: track.payloads keeps, for each call,
   the callback, its argument, the test_id put in the payload and the error *)

Tracker == [current |-> track.current, last |-> track.last, stack |-> track.stack]

Tracked(op, arg, r, test_id) ==
    [current |-> r.t.current, last |-> r.t.last, stack |-> r.t.stack,
     payloads |-> Append(track.payloads, [op |-> op, arg |-> arg, test_id |-> test_id,
                                          raised |-> r.raised])]

InitTrack ==
    /\ pc = "track"
    /\ IdlePipeline
    /\ IdleSuite
    /\ IdleStream
    /\ IdleExec
    /\ tids = NoIds
    /\ context = NoCtx
    /\ \E start \in TrackStarts :
          track = [current |-> TrackId_init(start).t.current, last |-> <<>>,
                   stack |-> <<>>, payloads |-> <<>>]

TrackReset ==
    /\ Len(track.payloads) < MaxCalls
    /\ \E value \in TrackResets :
          track' = Tracked("reset", value, _reset(Tracker, value), <<>>)
    /\ UNCHANGED <<pc, raw, spec, merged, nextOid, suiteVars, streamVars, execVars,
                   tids, context>>

TrackDown ==
    /\ Len(track.payloads) < MaxCalls
    /\ Len(track.current) < MaxDepth
    /\ Len(track.stack) < MaxDepth
    /\ \E start \in TrackGroupStarts :
          track' = Tracked("down", start, _down(Tracker, start), <<>>)
    /\ UNCHANGED <<pc, raw, spec, merged, nextOid, suiteVars, streamVars, execVars,
                   tids, context>>

TrackUp ==
    /\ Len(track.payloads) < MaxCalls
    /\ track' = Tracked("up", PyNone, _up(Tracker), <<>>)
    /\ UNCHANGED <<pc, raw, spec, merged, nextOid, suiteVars, streamVars, execVars,
                   tids, context>>

TrackNext ==
    /\ Len(track.payloads) < MaxCalls
    /\ \E step \in TrackSteps :
          /\ track.current[Len(track.current)] + step.i <= MaxPart
          /\ track' = Tracked("next", step, _next(Tracker, step),
                              _next(Tracker, step).test_id)
    /\ UNCHANGED <<pc, raw, spec, merged, nextOid, suiteVars, streamVars, execVars,
                   tids, context>>

NextTrack == TrackReset \/ TrackDown \/ TrackUp \/ TrackNext

SpecTrack == InitTrack /\ [][NextTrack]_vars

----------------------------------------------------------------------------
(* parse_check applied to one raw check: spec is the normalised check, raw
   the raw check as the call leaves it *)

InitCheck ==
    /\ pc = "check"
    /\ raw \in RawChecks
    /\ spec = PyNone
    /\ merged = PyNone
    /\ nextOid = 1
    /\ IdleSuite
    /\ IdleStream
    /\ IdleExec
    /\ IdleAux

ParseCheck ==
    /\ pc = "check"
    /\ pc' = IF parse_check(raw).ok THEN "parsed" ELSE "rejected"
    /\ spec' = parse_check(raw).val
    /\ raw' = parse_check(raw).raw
    /\ UNCHANGED <<merged, nextOid, suiteVars, streamVars, execVars, auxVars>>

NextCheck == ParseCheck

SpecCheck == InitCheck /\ [][NextCheck]_vars

----------------------------------------------------------------------------
(* Runs of leaves, one after the other: context is the sequence of what each
   run did with its Context *)

InitRuns ==
    /\ pc = "runs"
    /\ IdlePipeline
    /\ IdleSuite
    /\ IdleStream
    /\ IdleExec
    /\ tids = NoIds
    /\ track = NoTrack
    /\ context = <<>>

RunLeaf ==
    /\ Len(context) < MaxLeafRuns
    /\ \E leaf \in Leaves, failing \in SUBSET Commands :
          context' = Append(context, _TestRuntime_run_ctx(leaf, failing))
    /\ UNCHANGED <<pc, raw, spec, merged, nextOid, suiteVars, streamVars, execVars,
                   tids, track>>

NextRuns == RunLeaf

SpecRuns == InitRuns /\ [][NextRuns]_vars

----------------------------------------------------------------------------
(* Calls on one Context: context.ns is its _locals, context.call the last
   call with the namespace before it and what it gave *)

InitContext ==
    /\ pc = "context"
    /\ IdlePipeline
    /\ IdleSuite
    /\ IdleStream
    /\ IdleExec
    /\ tids = NoIds
    /\ track = NoTrack
    /\ \E initial \in CtxInitials :
          context = [ns |-> initial, op |-> "", arg |-> <<>>, before |-> initial,
                     gave |-> Returned(0, initial)]

CalledContext(op, arg, r) ==
    /\ \A n \in DOMAIN r.ns : r.ns[n] <= MaxValue
    /\ context' = [ns |-> r.ns, op |-> op, arg |-> arg, before |-> context.ns, gave |-> r]
    /\ UNCHANGED <<pc, raw, spec, merged, nextOid, suiteVars, streamVars, execVars,
                   tids, track>>

Execute == \E code \in CtxStatements :
    CalledContext("execute", code, Context_execute(context.ns, code))

EvaluateExpression == \E expression \in CtxExpressions :
    CalledContext("evaluate", expression, Context_evaluate(context.ns, expression))

Render == \E template \in CtxTemplates :
    CalledContext("render", template, Context_render(context.ns, template))

NextContext == Execute \/ EvaluateExpression \/ Render

SpecContext == InitContext /\ [][NextContext]_vars

----------------------------------------------------------------------------
(* Navigation in a test tree, for the properties below *)

\* children of a Spec / TestCase (or of a raw document / raw test)
Tests(node) ==
    LET ts == DictGet(node, "tests")
    IN IF ts.cls = "list" THEN ts.kids ELSE <<>>

\* a test node is named by its path of child positions from the root
RECURSIVE PathsFrom(_)
PathsFrom(node) ==
    UNION { {<<n>>} \cup { <<n>> \o q : q \in PathsFrom(Tests(node)[n]) }
            : n \in DOMAIN Tests(node) }

RECURSIVE NodeAt(_, _)
NodeAt(node, p) == IF p = <<>> THEN node ELSE NodeAt(Tests(node)[Head(p)], Tail(p))

Front(p) == SubSeq(p, 1, Len(p) - 1)

\* the items of a list field, as values
FieldVals(node, f) == Vals(Get(node, f).kids)

SameShape == PathsFrom(merged) = PathsFrom(spec)

----------------------------------------------------------------------------
(* C1 *)

ParentFirstFields == {"filters", "setup", "stdout", "stderr", "args"}

\* what a node inherits for a list field: its parent's merged list, and for
\* a top-level test the document's root filters / exec.args / nothing
InheritedList(f, p) ==
    IF Len(p) > 1 THEN FieldVals(NodeAt(merged, Front(p)), f)
    ELSE CASE f = "filters" -> FieldVals(spec, "filters")
           [] f = "args" -> FieldVals(Get(spec, "exec"), "args")
           [] OTHER -> <<>>

\* C1: after merge_spec, for every test node at any depth, each of filters,
\* setup, stdout, stderr and args is the inherited list followed by the list
\* the node declares (order and multiplicity kept).
C1_ParentFirstLists ==
    pc = "merged" =>
        /\ SameShape
        /\ \A p \in PathsFrom(merged) : \A f \in ParentFirstFields :
              FieldVals(NodeAt(merged, p), f)
                  = InheritedList(f, p) \o FieldVals(NodeAt(spec, p), f)

KindsOf(node, f) == [n \in DOMAIN Get(node, f).kids |-> Get(node, f).kids[n].s]

\* a child declaring [trim, upper] under a parent declaring [upper] under
\* root filters [lower]: the child's merged filters repeat `upper`
C1_Witness ==
    /\ pc = "merged"
    /\ \E p \in PathsFrom(merged) :
          /\ Len(p) = 2
          /\ KindsOf(NodeAt(spec, p), "filters") = <<"trim", "upper">>
          /\ KindsOf(NodeAt(merged, p), "filters") = <<"lower", "upper", "trim", "upper">>
          /\ Len(Get(NodeAt(merged, p), "args").kids) = 4

----------------------------------------------------------------------------
(* C2 *)

\* the teardown steps declared by the node at p, then by each ancestor from
\* the nearest to the farthest
RECURSIVE TeardownChain(_)
TeardownChain(p) ==
    IF p = <<>> THEN <<>>
    ELSE FieldVals(NodeAt(spec, p), "teardown") \o TeardownChain(Front(p))

\* C2: after merge_spec, the teardown of every node is its own steps
\* followed by its parent's merged steps, hence leaf first, then each
\* ancestor from nearest to farthest.
C2_TeardownChildFirst ==
    pc = "merged" =>
        /\ SameShape
        /\ \A p \in PathsFrom(merged) :
              /\ FieldVals(NodeAt(merged, p), "teardown") = TeardownChain(p)
              /\ FieldVals(NodeAt(merged, p), "teardown")
                    = FieldVals(NodeAt(spec, p), "teardown")
                      \o (IF Len(p) > 1 THEN FieldVals(NodeAt(merged, Front(p)), "teardown")
                          ELSE <<>>)

\* a leaf at depth 3 whose two ancestors declare different teardown steps
C2_Witness ==
    /\ pc = "merged"
    /\ \E p \in PathsFrom(merged) :
          /\ Len(p) = 3
          /\ Len(Get(NodeAt(spec, p), "teardown").kids) = 1
          /\ Len(Get(NodeAt(spec, Front(p)), "teardown").kids) = 2
          /\ Len(Get(NodeAt(spec, Front(Front(p))), "teardown").kids) = 1
          /\ KindsOf(NodeAt(merged, p), "teardown") = <<"run", "eval", "run", "run">>

----------------------------------------------------------------------------
(* C3 *)

InheritedScalar(f, p) ==
    IF Len(p) > 1 THEN Val(Get(NodeAt(merged, Front(p)), f))
    ELSE IF f = "stdin" THEN Val(Get(Get(spec, "exec"), "stdin"))
    ELSE Val(PyNone)

\* C3: after merge_spec, stdin (resp. exit) of every node is the value the
\* node declares when it declares one, and otherwise the merged value of its
\* parent (exec.stdin, resp. nothing, for a top-level test).
C3_FallbackStdinExit ==
    pc = "merged" =>
        /\ SameShape
        /\ \A p \in PathsFrom(merged) : \A f \in {"stdin", "exit"} :
              Val(Get(NodeAt(merged, p), f))
                  = IF Get(NodeAt(spec, p), f).cls # "none"
                    THEN Val(Get(NodeAt(spec, p), f))
                    ELSE InheritedScalar(f, p)

\* a node declaring stdin "" and exit 0 under a parent with stdin "in" and
\* exit 3 keeps its own, and a grandchild declaring nothing gets them
C3_Witness ==
    /\ pc = "merged"
    /\ \E p \in PathsFrom(merged) :
          /\ Len(p) = 3
          /\ Get(NodeAt(spec, p), "stdin").cls = "none"
          /\ Get(NodeAt(spec, p), "exit").cls = "none"
          /\ Get(NodeAt(spec, Front(p)), "exit") = K("exit", PyInt(0))
          /\ Get(NodeAt(spec, Front(p)), "stdin") = K("stdin", PyStr(""))
          /\ Get(NodeAt(spec, Front(Front(p))), "exit") = K("exit", PyInt(3))
          /\ Get(NodeAt(merged, p), "exit") = K("exit", PyInt(0))
          /\ Get(NodeAt(merged, p), "stdin") = K("stdin", PyStr(""))

----------------------------------------------------------------------------
(* C4 *)

\* the timeout a node is meant to end with: its own when the raw test
\* declares one, else that of its nearest ancestor declaring one, else the
\* document's
RECURSIVE ExpectedTimeout(_)
ExpectedTimeout(p) ==
    IF DictGet(NodeAt(raw, p), "timeout").cls # "none" THEN Get(NodeAt(raw, p), "timeout")
    ELSE IF p = <<>> THEN PyNone
    ELSE ExpectedTimeout(Front(p))

\* C4: after merge_spec, every test carries the timeout it declares, or
\* else the timeout of its nearest ancestor declaring one (ultimately the
\* document's).
C4_FallbackTimeout ==
    pc = "merged" =>
        \A p \in PathsFrom(merged) :
            ExpectedTimeout(p).cls # "none" =>
                /\ Has(NodeAt(merged, p), "timeout")
                /\ Get(NodeAt(merged, p), "timeout").i = ExpectedTimeout(p).i

----------------------------------------------------------------------------
(* C5 *)

Pairs(d) == { <<d.kids[n].key, d.kids[n].i>> : n \in DOMAIN d.kids }

\* shallow union of the ulimit mappings from the document down to p, the
\* nearer declaration winning on a shared key
RECURSIVE ExpectedUlimit(_)
ExpectedUlimit(p) ==
    LET own == Pairs(DictGet(NodeAt(raw, p), "ulimit"))
        inh == IF p = <<>> THEN {} ELSE ExpectedUlimit(Front(p))
    IN { e \in inh : \A o \in own : o[1] # e[1] } \cup own

\* C5: after merge_spec, the ulimit of every node is the shallow union of
\* the inherited mapping and its own, its own value winning, and it stays
\* absent when neither side declares one.
C5_UlimitDictMerge ==
    pc = "merged" =>
        \A p \in PathsFrom(merged) :
            IF ExpectedUlimit(p) = {}
            THEN ~Truthy(DictGet(NodeAt(merged, p), "ulimit"))
            ELSE /\ Has(NodeAt(merged, p), "ulimit")
                 /\ Pairs(Get(NodeAt(merged, p), "ulimit")) = ExpectedUlimit(p)

----------------------------------------------------------------------------
(* C6 *)

\* product of the repeat counts declared at p and at each of its ancestors
RECURSIVE RepeatProduct(_)
RepeatProduct(p) ==
    IF p = <<>> THEN 1
    ELSE Get(NodeAt(spec, p), "repeat").i * RepeatProduct(Front(p))

\* C6: after merge_spec, the repeat of every node is the product of the
\* repeat declared on the node and on each of its ancestors (1 when absent).
C6_RepeatMultiplicative ==
    pc = "merged" =>
        /\ SameShape
        /\ \A p \in PathsFrom(merged) :
              /\ Get(NodeAt(merged, p), "repeat").cls = "int"
              /\ Get(NodeAt(merged, p), "repeat").i = RepeatProduct(p)

\* parent repeat 2, child repeat 3: effective 6
C6_Witness ==
    /\ pc = "merged"
    /\ \E p \in PathsFrom(merged) :
          /\ Len(p) = 2
          /\ Get(NodeAt(spec, Front(p)), "repeat").i = 2
          /\ Get(NodeAt(spec, p), "repeat").i = 3
          /\ Get(NodeAt(merged, p), "repeat").i = 6

----------------------------------------------------------------------------
(* C7 *)

\* C7: for every raw document the normaliser accepts, every node of the
\* tree returned by merge_spec has repeat >= 1.
C7_RepeatAtLeastOne ==
    pc = "merged" =>
        \A p \in PathsFrom(merged) : Get(NodeAt(merged, p), "repeat").i >= 1

----------------------------------------------------------------------------
(* C8 *)

FileNamesOf(node) ==
    { Get(node, "files").kids[n].key : n \in DOMAIN Get(node, "files").kids }

FileOpsOf(node, name) ==
    IF name \in FileNamesOf(node)
    THEN Vals(Get(Get(Get(node, "files"), name), "ops").kids)
    ELSE <<>>

FilesRuleAt(p) ==
    LET inhNames == IF Len(p) > 1 THEN FileNamesOf(NodeAt(merged, Front(p))) ELSE {}
    IN /\ FileNamesOf(NodeAt(merged, p)) = inhNames \cup FileNamesOf(NodeAt(spec, p))
       /\ \A name \in FileNamesOf(NodeAt(merged, p)) :
             FileOpsOf(NodeAt(merged, p), name)
                 = (IF name \in inhNames THEN FileOpsOf(NodeAt(merged, Front(p)), name)
                    ELSE <<>>)
                   \o FileOpsOf(NodeAt(spec, p), name)

\* C8: merge_spec gives every node a files mapping with exactly the
\* filenames it declares or inherits; the ops of a filename are the
\* inherited ops followed by the node's own.
C8_FilesMerged ==
    pc \in {"merged", "merge_error"} =>
        /\ pc = "merged"
        /\ SameShape
        /\ \A p \in PathsFrom(merged) : FilesRuleAt(p)

----------------------------------------------------------------------------
(* C9 *)

\* C9: merge_spec does not mutate its input: the call leaves every field of
\* every node of the input Spec as it was, and the merged tree holds no
\* mutable object of the input tree.
C9_InputNotMutated ==
    /\ [][pc = "normalized" => spec' = spec]_vars
    /\ [](pc = "merged" => Oids(spec) \cap Oids(merged) = {})

\* merge_spec returned for a Spec with root filters and a nested test that
\* declares filters, steps and args of its own
C9_Witness ==
    /\ pc = "merged"
    /\ Get(spec, "filters").kids # <<>>
    /\ \E p \in PathsFrom(spec) :
          /\ Len(p) = 2
          /\ \A f \in {"filters", "setup", "teardown", "args"} :
                /\ Get(NodeAt(spec, p), f).kids # <<>>
                /\ Len(Get(NodeAt(merged, p), f).kids) > Len(Get(NodeAt(spec, p), f).kids)

----------------------------------------------------------------------------
(* C10 *)

\* C10: normalize_spec never mutates the raw mapping it is given, whether
\* it returns a Spec or fails, and a failed call returns no Spec.
C10_RawNotMutated ==
    /\ [][pc = "raw" => raw' = raw]_vars
    /\ [](pc = "invalid" => spec = PyNone)

----------------------------------------------------------------------------
(* C11 *)

\* the effects of a call that concern the leaf id, in order
EffectsOf(id) == SelectSeq(outcome.effects, LAMBDA e : e.test = id)

\* the leaf id had a setup hook that failed during the last call
SetupFailed(id) ==
    \E n \in DOMAIN outcome.effects :
        /\ outcome.effects[n].test = id
        /\ outcome.effects[n].phase = "setup"
        /\ outcome.effects[n].failed

LeafIds == { rt.test_id : rt \in Runtimes(suite) }
RuntimeOf(id) == CHOOSE rt \in Runtimes(suite) : rt.test_id = id

\* C11: when a setup hook of a leaf fails, the hooks of that leaf that were
\* started are the setup hooks up to the failing one and nothing else (no
\* later setup hook, no call of the process runner, no teardown hook), and
\* run() of that leaf returns a TestRunResult with no iteration and exactly
\* one failure, tagged setup.
C11_SetupFailureAborts ==
    \A id \in LeafIds : SetupFailed(id) =>
        /\ \A n \in DOMAIN EffectsOf(id) :
              /\ EffectsOf(id)[n].phase = "setup"
              /\ EffectsOf(id)[n].n = n
              /\ EffectsOf(id)[n].failed <=> n = Len(EffectsOf(id))
        /\ Len(EffectsOf(id)) <= Len(Get(RuntimeOf(id).case, "setup").kids)
        /\ (outcome.call = "TestNode.run" /\ outcome.node = id) =>
              /\ outcome.raised = ""
              /\ Len(outcome.results) = 1
              /\ outcome.results[1].test_id = id
              /\ outcome.results[1].iterations = <<>>
              /\ Len(outcome.results[1].failures) = 1
              /\ outcome.results[1].failures[1].on = "setup"
              /\ outcome.results[1].failures[1].check = "setup"

\* run() of a leaf with three setup hooks and two teardown hooks, whose
\* second setup hook fails: two hooks were started
C11_Witness ==
    /\ outcome.call = "TestNode.run"
    /\ outcome.node \in LeafIds
    /\ SetupFailed(outcome.node)
    /\ Len(Get(RuntimeOf(outcome.node).case, "setup").kids) = 3
    /\ Len(Get(RuntimeOf(outcome.node).case, "teardown").kids) = 2
    /\ Len(outcome.effects) = 2
    /\ Len(outcome.results) = 1

----------------------------------------------------------------------------
(* C12 *)

\* the last call started a hook of the given phase of leaf id
Started(id, phase) ==
    \E n \in DOMAIN outcome.effects :
        outcome.effects[n].test = id /\ outcome.effects[n].phase = phase

\* C12: when run() is called on a leaf and its setup succeeds, run() returns
\* a result and the leaf's teardown hooks are attempted (the first of them
\* is started), whatever happened in between; a teardown failure is the
\* last entry of the failure list.
C12_TeardownAlwaysAttempted ==
    \A id \in LeafIds :
        (outcome.call = "TestNode.run" /\ outcome.node = id /\ ~SetupFailed(id)) =>
            /\ Get(RuntimeOf(id).case, "teardown").kids # <<>> => Started(id, "teardown")
            /\ outcome.raised = ""
            /\ \A n \in DOMAIN outcome.results[1].failures :
                  outcome.results[1].failures[n].on = "teardown"
                      => n = Len(outcome.results[1].failures)

----------------------------------------------------------------------------
(* C13: order of a stream pipeline *)

\* positions of the checks in a list of steps
MatcherPositions(steps) ==
    SelectSeq([i \in 1..Len(steps) |-> i], LAMBDA i : steps[i].cls = "_MatcherStep")

\* the filters of the first n steps, in order
FiltersOf(steps, n) ==
    LET fs == SelectSeq(SubSeq(steps, 1, n), LAMBDA st : st.cls = "_FilterStep")
    IN [i \in DOMAIN fs |-> Get(fs[i], "filter")]

\* leaf filters, then the filters among the first n steps
FiltersBefore(n) == compiled[1].filters \o FiltersOf(compiled[1].steps, n)

AllFilters == FiltersBefore(Len(compiled[1].steps))

\* C13: the leaf's filters run first, then the op list in order; the k-th
\* check sees the text produced by exactly the leaf filters and the filter ops
\* before it, the recorded filtered value is the text after all filters, and
\* the history names every filter in that order, each entry starting from the
\* value the previous one produced.
C13_PipelineOrder ==
    evaluation # <<>> =>
        LET ev == evaluation[1]
            pos == MatcherPositions(compiled[1].steps)
        IN /\ Len(ev.seen) = Len(pos)
           /\ \A k \in DOMAIN pos :
                  ev.seen[k] = Filters_apply(FiltersBefore(pos[k] - 1), stream.value)
           /\ ev.filtered = Filters_apply(AllFilters, stream.value)
           /\ ev.original = stream.value
           /\ Len(ev.filters) = Len(AllFilters)
           /\ \A i \in DOMAIN ev.filters :
                  /\ ev.filters[i].name = Filter_name(AllFilters[i].cls)
                  /\ ev.filters[i].before =
                        IF i = 1 THEN stream.value ELSE ev.filters[i - 1].after
                  /\ ev.filters[i].after = Filter_filter(AllFilters[i], ev.filters[i].before)

\* a stream with leaf filters was evaluated whose list holds a filter after a
\* check, and the check saw another text than the final one
C13_Witness ==
    /\ evaluation # <<>>
    /\ compiled[1].filters # <<>>
    /\ \E i, j \in DOMAIN compiled[1].steps :
          /\ i < j
          /\ compiled[1].steps[i].cls = "_MatcherStep"
          /\ compiled[1].steps[j].cls = "_FilterStep"
    /\ evaluation[1].seen # <<>>
    /\ evaluation[1].seen[1] # evaluation[1].filtered
    /\ evaluation[1].seen[1] # stream.value

----------------------------------------------------------------------------
(* C14: every filter kind of the schema has a runtime filter *)

\* the filter kinds among the filters and stream ops of the merged document
RECURSIVE KindsIn(_)
KindsIn(o) ==
    (IF o.cls \in FilterBase THEN {o.cls} ELSE {})
        \cup UNION { KindsIn(o.kids[n]) : n \in DOMAIN o.kids }

\* C14: build_suite compiles every filter kind the normaliser accepts (trim,
\* lower, upper, sub, map_eval): on a normalised and merged document whose
\* executable is valid it returns a suite, whatever filters the document
\* declares.
C14_EveryFilterKindCompiles ==
    pc = "build_error" => outcome.raised = "InvalidExecutableError"

\* build_suite raised FilterError on a document whose only filter kinds are
\* trim, lower and map_eval
C14_MapEvalRejected ==
    /\ pc = "build_error"
    /\ outcome.raised = "FilterError"
    /\ KindsIn(merged) = {"FTrim", "FLower", "FMapEval"}

----------------------------------------------------------------------------
(* C15: a failing check does not stop the checks after it *)

\* the failure of the k-th check of the compiled list on the text v, as a
\* list of zero or one MatcherError
FailureOf(k, v) ==
    Matcher_call(MatchersOf(compiled[1].steps)[k], v, stream.name,
                 TestId_str(stream.test_id))

\* the failures expected of the checks, in declaration order, the k-th check
\* being given the text texts[k]
ExpectedFailures(texts) ==
    LET failing == SelectSeq([k \in DOMAIN texts |-> k],
                             LAMBDA k : FailureOf(k, texts[k]) # <<>>)
    IN [i \in DOMAIN failing |-> FailureOf(failing[i], texts[failing[i]])[1]]

\* the text each check of the list is given by evaluate (see C13)
TextsSeen ==
    LET pos == MatcherPositions(compiled[1].steps)
    IN [k \in DOMAIN pos |-> Filters_apply(FiltersBefore(pos[k] - 1), stream.value)]

\* C15: every check of an op list, and of a Matchers collection, is evaluated
\* whether or not an earlier one failed; the failure list holds exactly one
\* entry per failing check, in declaration order, and nothing for a passing
\* check.
C15_AllChecksEvaluated ==
    /\ evaluation # <<>> =>
          /\ Len(evaluation[1].seen) = Len(MatchersOf(compiled[1].steps))
          /\ evaluation[1].failures = ExpectedFailures(TextsSeen)
    /\ collected # <<>> =>
          collected[1] = ExpectedFailures([k \in DOMAIN MatchersOf(compiled[1].steps) |->
                                              stream.value])

\* a list of three checks was evaluated, by evaluate and as a Matchers
\* collection: the first check failed, the second passed and the third failed
C15_Witness ==
    /\ evaluation # <<>>
    /\ collected # <<>>
    /\ Len(compiled[1].steps) = 3
    /\ Len(MatchersOf(compiled[1].steps)) = 3
    /\ FailureOf(1, TextsSeen[1]) # <<>>
    /\ FailureOf(2, TextsSeen[2]) = <<>>
    /\ FailureOf(3, TextsSeen[3]) # <<>>
    /\ Len(evaluation[1].failures) = 2
    /\ evaluation[1].failures[1].expected # evaluation[1].failures[2].expected
    /\ Len(collected[1]) >= 2

----------------------------------------------------------------------------
(* C16: one result per leaf, in traversal order *)

\* the leaves below a list of nodes, depth first in declaration order
RECURSIVE LeavesOf(_)
LeavesOf(nodes) ==
    IF nodes = <<>> THEN <<>>
    ELSE (IF Head(nodes).tests = <<>> THEN <<Head(nodes)>> ELSE LeavesOf(Head(nodes).tests))
            \o LeavesOf(Tail(nodes))

\* C16: a node with children has no runtime and a node without children has
\* one; TestSuite.run returns a list with exactly one TestRunResult per leaf
\* and none for a group, in depth-first declaration order, each carrying the
\* id, name and description of its leaf.
C16_OneResultPerLeaf ==
    /\ \A nd \in Nodes(suite) : (nd.runtime = <<>>) <=> (nd.tests # <<>>)
    /\ outcome.call = "TestSuite.run" =>
          LET leaves == LeavesOf(suite)
          IN /\ outcome.raised = ""
             /\ Len(outcome.results) = Len(leaves)
             /\ \A n \in DOMAIN leaves :
                   /\ outcome.results[n].test_id = leaves[n].test_id
                   /\ outcome.results[n].name = leaves[n].name
                   /\ outcome.results[n].description = leaves[n].description

----------------------------------------------------------------------------
(* C17: test ids are assigned by build_suite and never change *)

\* the positions of the nodes below a list of nodes: <<i>> is the i-th node
\* of the list, p \o <<j>> the j-th child of the node at p
RECURSIVE NodePaths(_)
NodePaths(nodes) ==
    UNION { {<<n>>} \cup { <<n>> \o q : q \in NodePaths(nodes[n].tests) }
            : n \in DOMAIN nodes }

RECURSIVE NodeOn(_, _)
NodeOn(nodes, p) ==
    IF Len(p) = 1 THEN nodes[Head(p)] ELSE NodeOn(nodes[Head(p)].tests, Tail(p))

\* the ids given by build_suite: position by position
IdsAssigned ==
    /\ \A i \in DOMAIN suite : suite[i].test_id = <<i>>
    /\ \A p \in NodePaths(suite) :
          /\ \A j \in DOMAIN NodeOn(suite, p).tests :
                NodeOn(suite, p).tests[j].test_id = Append(NodeOn(suite, p).test_id, j)
          /\ NodeOn(suite, p).runtime # <<>> =>
                NodeOn(suite, p).runtime[1].test_id = NodeOn(suite, p).test_id
    /\ \A p, q \in NodePaths(suite) :
          p # q => NodeOn(suite, p).test_id # NodeOn(suite, q).test_id

\* the ids reported by the last call of run are those of the leaves it ran
IdsReported ==
    outcome.call \in {"TestSuite.run", "TestNode.run"} =>
        LET ran == IF outcome.call = "TestSuite.run" THEN LeavesOf(suite)
                   ELSE LeavesOf(<<CHOOSE nd \in Nodes(suite) : nd.test_id = outcome.node>>)
        IN /\ Len(outcome.results) <= Len(ran)
           /\ \A n \in DOMAIN outcome.results : outcome.results[n].test_id = ran[n].test_id

\* C17: build_suite gives the i-th top-level test the id (i) and the j-th
\* child of the node with id p the id p.j, so the ids of a suite are pairwise
\* distinct; once build_suite has returned no run, of the suite or of any
\* node, in any order and number, changes the id of a node, and every result
\* carries the id of the leaf it was run for.
C17_IdsFixedAtCompileTime ==
    /\ [](IdsAssigned /\ IdsReported)
    /\ [][pc = "built" => suite' = suite]_vars

\* a suite with a node two levels down was built and run twice, the last
\* call returning a result for that node
C17_Witness ==
    /\ pc = "built"
    /\ runs = 2
    /\ \E p \in NodePaths(suite) : Len(p) = 3
    /\ \E n \in DOMAIN outcome.results : Len(outcome.results[n].test_id) = 3

----------------------------------------------------------------------------
(* C18: the forbidden binaries *)

\* C18: an Executable asked for one of the names rm, mv, dd, wget, mkfs is
\* never built: the constructor raises InvalidExecutableError whether the
\* name is found by the search path or not, and whether or not the working
\* directory holds an executable file of that name.
C18_ForbiddenAlwaysRejected ==
    exe.asked \in FORBIDDEN_BINARIES /\ pc # "new" =>
        /\ pc = "invalid"
        /\ result = <<Raise("InvalidExecutableError")>>

----------------------------------------------------------------------------
(* C19, C20: the timeout of Executable.run *)

\* C19: when the timeout elapses while the program is running, run does not
\* raise: it kills the child, waits for it and returns Outputs with an exit
\* status other than 0 and the output written so far, whatever the program
\* did, processes holding its pipes included (a hook that raises is the
\* matter of C21).
C19_TimeoutIsAResult ==
    proc.expired = "running" /\ proc.hook # "raises" =>
        /\ pc # "raised"
        /\ pc = "returned" =>
              /\ result[1].ok
              /\ result[1].val.exit_status # 0
              /\ result[1].val.stdout = proc.out
              /\ proc.child = "reaped"

\* C20: when a call of run whose timeout elapsed has returned or raised, the
\* child has ended and been reaped and no process started during the call is
\* still running.
C20_NoProcessLeft ==
    proc.expired # "" /\ pc \in {"returned", "raised"} =>
        /\ proc.child = "reaped"
        /\ proc.grand = 0
        /\ proc.detached = 0

----------------------------------------------------------------------------
(* C21: the post-run hook *)

\* C21: a hook given to run is called exactly once, after the child has
\* ended and been reaped, with the argv, stdin, stdout, stderr and exit
\* status of the run, and whether it returns or raises run returns the
\* Outputs record it returns without a hook; the hook is not called before
\* the end of the run.
C21_HookIsolated ==
    /\ pc \in {"communicate", "timeout", "killed", "waited", "decode"} => proc.hooked = <<>>
    /\ proc.hooked # <<>> =>
          /\ Len(proc.hooked) = 1
          /\ proc.child = "reaped"
          /\ proc.hooked[1] = [cmd |-> <<exe.filename>>, stdin |-> <<>>,
                               stdout |-> proc.out, stderr |-> 0,
                               exit_status |-> proc.returncode[1]]
          /\ pc = "returned"
          /\ result = <<Ok(Outputs(proc.returncode[1], proc.out, 0))>>
    /\ pc = "returned" /\ proc.hook # "none" => Len(proc.hooked) = 1

----------------------------------------------------------------------------
(* C22: build_suite fails fast on the program path *)

\* C22: build_suite returns a suite only with an Executable whose path was
\* validated: the program of exec.cmd is not empty and not one of the
\* forbidden names, and the path the suite holds is an executable regular
\* file; otherwise it raises, so that no leaf can be run against a program
\* that was not validated.
C22_FailFast ==
    pc = "built" =>
        /\ exe.asked # ""
        /\ exe.asked \notin FORBIDDEN_BINARIES
        /\ exe.filename # ""
        /\ _is_executable(exe.filename, disk)

----------------------------------------------------------------------------
(* C23: for a TestId t and a start s >= 1, t.down(s).up() has the parts of
   t; down, and up on an identifier of several parts, return an object other
   than the receiver, no call changes an object made before, and up() on a
   one-part identifier returns the receiver itself *)

\* the objects made by up() on the result of a down(): u = (t.down(s)).up()
DownUps ==
    { u \in DOMAIN tids.objs :
        /\ tids.objs[u].op = "up"
        /\ tids.objs[tids.objs[u].recv].op = "down" }

C23_DownUpIsIdentity ==
    /\ \A u \in DownUps :
          tids.objs[u].parts = tids.objs[tids.objs[tids.objs[u].recv].recv].parts
    /\ \A u \in DOMAIN tids.objs :
          tids.objs[u].op \in {"down", "up"} => tids.objs[u].recv < u
    /\ (tids.call.op = "up" /\ Len(tids.objs[tids.call.recv].parts) = 1)
          => tids.call.ret = tids.call.recv
    /\ (tids.call.op = "down" /\ tids.call.arg.cls = "int" /\ tids.call.arg.i >= 1)
          => (tids.call.ret > tids.call.recv /\ tids.call.raised = "")

\* no call changes the objects that exist
C23_ObjectsUnchanged ==
    [][\A t \in DOMAIN tids.objs : tids'.objs[t] = tids.objs[t]]_vars

\* t = 1.2, t.down(2) = 1.2.2, and its up() is a third object
C23_Witness ==
    \E u \in DownUps :
        /\ Len(tids.objs[u].parts) = 2
        /\ tids.objs[tids.objs[u].recv].arg = PyInt(2)
        /\ tids.call.op = "up"
        /\ tids.call.ret = u

----------------------------------------------------------------------------
(* C24: every TestId object, built by the constructor or returned by next,
   down, up or +, has at least one part and every part is >= 1; TestId(0),
   TestId of a string with a 0 part, TestId of an empty sequence, and next,
   + and down with an integer < 1 raise ValueError and make no object *)

\* the constructor arguments the claim names
ZeroValues == { PyInt(0), Tuple(<<>>), IdStr(<<"0">>), IdStr(<<"1", ".", "0">>) }

C24_PartsPositive ==
    /\ \A t \in DOMAIN tids.objs :
          /\ tids.objs[t].parts # <<>>
          /\ \A n \in DOMAIN tids.objs[t].parts : tids.objs[t].parts[n] >= 1
    /\ (tids.call.op = "init" /\ tids.call.arg \in ZeroValues)
          => (tids.call.raised = "ValueError" /\ tids.call.ret = 0)
    /\ (tids.call.op \in {"next", "add", "down"} /\ tids.call.arg.cls = "int"
            /\ tids.call.arg.i < 1)
          => (tids.call.raised = "ValueError" /\ tids.call.ret = 0)

\* an identifier made by + from one made from a string; then TestId(0) is
\* refused
C24_Witness ==
    /\ Len(tids.objs) = 2
    /\ tids.objs[1].arg.cls = "str"
    /\ tids.objs[2].op = "add"
    /\ tids.call.op = "init"
    /\ tids.call.arg = PyInt(0)
    /\ tids.call.raised = "ValueError"

----------------------------------------------------------------------------
(* C30: on a TrackId, next(step) puts the current identifier in the payload
   and moves the cursor to the identifier with its last part advanced by the
   step; a down() called right after next() assigned k makes the next
   next() assign k.start, and the following ones its successors; after the
   up() that matches that down(), at any depth, next() assigns the sibling
   of k that followed it at the outer level; reset(value) leaves the cursor
   at TestId(value) with no _last and an empty stack *)

Calls == track.payloads

\* the identifier after k in steps of s
Sibling(k, s) == [n \in DOMAIN k |-> IF n = Len(k) THEN k[n] + s ELSE k[n]]

\* a call that returned, by its callback
Did(n, op) == n \in DOMAIN Calls /\ Calls[n].op = op /\ Calls[n].raised = ""

Count(a, b, op) == Cardinality({ n \in a..b : Calls[n].op = op })

\* u is the up() that leaves the group entered by the down() at d
Matching(d, u) ==
    /\ d < u
    /\ Did(d, "down")
    /\ Did(u, "up")
    /\ \A v \in d..u : Calls[v].op # "reset" /\ Calls[v].raised = ""
    /\ Count(d + 1, u - 1, "down") = Count(d + 1, u - 1, "up")
    /\ \A v \in (d + 1)..(u - 1) : Count(d + 1, v, "up") <= Count(d + 1, v, "down")

C30_NextAssignsAndAdvances ==
    \A n \in DOMAIN Calls :
        Did(n, "next") =>
            /\ Did(n + 1, "next") =>
                  Calls[n + 1].test_id = Sibling(Calls[n].test_id, Calls[n].arg.i)
            /\ n = Len(Calls) =>
                  track.current = Sibling(Calls[n].test_id, Calls[n].arg.i)

C30_DownNumbersUnderLast ==
    \A n \in DOMAIN Calls :
        (Did(n, "next") /\ Did(n + 1, "down") /\ Did(n + 2, "next"))
            => Calls[n + 2].test_id = Append(Calls[n].test_id, Calls[n + 1].arg.i)

C30_UpRestoresCursor ==
    \A d, u \in DOMAIN Calls :
        (Did(d - 1, "next") /\ Matching(d, u) /\ Did(u + 1, "next"))
            => Calls[u + 1].test_id = Sibling(Calls[d - 1].test_id, Calls[d - 1].arg.i)

C30_ResetClears ==
    Did(Len(Calls), "reset") =>
        /\ track.current = TestId_init(Calls[Len(Calls)].arg).val
        /\ track.last = <<>>
        /\ track.stack = <<>>

C30_TrackIdCursor ==
    /\ C30_NextAssignsAndAdvances
    /\ C30_DownNumbersUnderLast
    /\ C30_UpRestoresCursor
    /\ C30_ResetClears

\* 1, then 1.1 and a group under it that is entered and left, then 1.2
C30_Witness ==
    /\ Len(Calls) = 6
    /\ Calls[1].test_id = <<1>>
    /\ Calls[3].test_id = <<1, 1>>
    /\ Matching(4, 5)
    /\ Calls[6].test_id = <<1, 2>>
    /\ Len(track.stack) = 1

\* 1, then 1.1 inside the group, then 2 after leaving it
C30_WitnessOuter ==
    /\ Len(Calls) = 5
    /\ Calls[1].test_id = <<1>>
    /\ Calls[3].test_id = <<1, 1>>
    /\ Matching(2, 4)
    /\ Calls[5].test_id = <<2>>

----------------------------------------------------------------------------
(* C25: on a Context where the variable x holds v, evaluate("++x") stores
   v + 1 and returns v + 1, evaluate("x++") returns v and stores v + 1; the
   mustaches of one template are evaluated from left to right on the same
   namespace and what they store stays: with i = v the template
   "{{ i++ }} {{ i }} {{ ++i }}" renders v, v + 1, v + 2 separated by blanks
   and leaves i = v + 2 ("1 2 3" and i = 3 when i = 1) *)

IncrementTemplate ==
    <<M(<<Nm("i"), Op("++")>>), Lit(" "), M(<<Nm("i")>>), Lit(" "), M(<<Op("++"), Nm("i")>>)>>

C25_Increments ==
    /\ \A x \in DOMAIN context.before :
          /\ (context.op = "evaluate" /\ context.arg = <<Op("++"), Nm(x)>>)
                => /\ context.gave.raised = ""
                   /\ context.gave.val = context.before[x] + 1
                   /\ context.ns[x] = context.before[x] + 1
          /\ (context.op = "evaluate" /\ context.arg = <<Nm(x), Op("++")>>)
                => /\ context.gave.raised = ""
                   /\ context.gave.val = context.before[x]
                   /\ context.ns[x] = context.before[x] + 1
    /\ (context.op = "render" /\ context.arg = IncrementTemplate
            /\ "i" \in DOMAIN context.before)
          => /\ context.gave.raised = ""
             /\ context.gave.val = IntStr(context.before["i"]) \o " "
                                    \o IntStr(context.before["i"] + 1) \o " "
                                    \o IntStr(context.before["i"] + 2)
             /\ context.ns["i"] = context.before["i"] + 2

\* i = 1 set by execute, then the template renders "1 2 3" and leaves i = 3
C25_Witness ==
    /\ context.op = "render"
    /\ context.arg = IncrementTemplate
    /\ context.before = [n \in {"i"} |-> 1]
    /\ context.gave.val = "1 2 3"
    /\ context.ns["i"] = 3

----------------------------------------------------------------------------
(* C27: a call of execute, evaluate or render on a text either returns or
   raises ContextError, whatever fails (an empty expression, a syntax error,
   an undefined name, an exception while evaluating, the format
   specification applied to the value); the ContextError of evaluate carries
   the expression, that of execute the code, that of render the expression
   and the whole template *)

C27_OnlyContextError ==
    /\ context.gave.raised \in {"", "ContextError"}
    /\ (context.gave.raised = "ContextError" /\ context.op = "evaluate")
          => context.gave.expression = <<context.arg>>
    /\ (context.gave.raised = "ContextError" /\ context.op = "execute")
          => context.gave.code = <<context.arg>>
    /\ (context.gave.raised = "ContextError" /\ context.op = "render")
          => (context.gave.expression # <<>> /\ context.gave.template = <<context.arg>>)

----------------------------------------------------------------------------
(* C28: for a check of any kind given in object form with an explanatory
   text under one of the spellings explain, explanation, explaination, the
   normalised check is the one the spelling explain gives: the text is in
   its field explain *)

\* the spellings present in the payload of the raw check
SpelledIn(check) == { sp \in Spellings : Has(check.kids[1], sp) }

\* the raw check with its explanatory text under the spelling explain
Canonical(check) ==
    LET sp == CHOOSE a \in SpelledIn(check) : TRUE
    IN RawCheck(check.kids[1].key,
                Put(Pop(check.kids[1], sp), "explain", Get(check.kids[1], sp)))

C28_ExplainAliases ==
    (pc \in {"parsed", "rejected"} /\ raw.kids[1].cls = "dict"
        /\ Cardinality(SpelledIn(raw)) = 1 /\ parse_check(Canonical(raw)).ok)
      => /\ pc = "parsed"
         /\ spec = parse_check(Canonical(raw)).val
         /\ Val(Get(spec, "explain")) = Val(Get(Canonical(raw).kids[1], "explain"))

----------------------------------------------------------------------------
(* C29: when run() is called on a leaf, its setup succeeds and the process
   runner does not raise, run() returns one result; the runner was called
   once for each of the leaf's repeat iterations, the result holds the
   iterations with indices 1, 2, ..., repeat in that order, and its failure
   list is the failures of the iterations in order, followed by at most one
   teardown failure *)

\* the calls of the process runner made for leaf id by the last call
RunnerCalls(id) ==
    SelectSeq(outcome.effects, LAMBDA e : e.test = id /\ e.phase = "iteration")

C29_OneIterationPerRepeat ==
    \A id \in LeafIds :
        (outcome.call = "TestNode.run" /\ outcome.node = id /\ ~SetupFailed(id)
            /\ \A n \in DOMAIN RunnerCalls(id) : ~RunnerCalls(id)[n].failed) =>
            /\ outcome.raised = ""
            /\ Len(outcome.results) = 1
            /\ Len(RunnerCalls(id)) = Max(Get(RuntimeOf(id).case, "repeat").i, 1)
            /\ Len(outcome.results[1].iterations) = Len(RunnerCalls(id))
            /\ \A n \in DOMAIN outcome.results[1].iterations :
                  outcome.results[1].iterations[n].index = n
            /\ outcome.results[1].failures
                  \in { Failures(outcome.results[1].iterations),
                        Failures(outcome.results[1].iterations) \o <<TeardownFailure>> }

----------------------------------------------------------------------------
(* C26: in a run of a leaf, a variable set by one use of the Context is
   visible to every later use in that run, and after a setup that succeeded
   the run goes on to the args, the check_eval checks and the teardown of
   the leaf, which see the variables the setup set; the first use of the
   Context in a run sees no variable, whatever the runs before it set *)

LeafNamed(name) == CHOOSE leaf \in Leaves : leaf.name = name

\* the uses of the Context in a phase of a run
UsesIn(run, phase) == SelectSeq(run.log, LAMBDA u : u.phase = phase)

C26_ContextScopedToRun ==
    \A r \in DOMAIN context :
        /\ \A n, m \in DOMAIN context[r].log :
              m < n => context[r].log[m].visible \subseteq context[r].log[n].visible
        /\ context[r].log # <<>> => context[r].log[1].visible = {}
        /\ (context[r].failed # "setup" /\ LeafNamed(context[r].leaf).setup # <<>>) =>
              /\ LeafNamed(context[r].leaf).args # <<>>
                    => UsesIn(context[r], "args") # <<>>
              /\ LeafNamed(context[r].leaf).teardown # <<>>
                    => UsesIn(context[r], "teardown") # <<>>
              /\ \A u \in DOMAIN context[r].log :
                    context[r].log[u].phase # "setup"
                        => context[r].log[u].visible # {}

============================================================================
